---- MODULE Spec2Model ----
(***************************************************************************)
(* bb-trainer: replay decode -> structured parse -> team attribution ->    *)
(* heuristic rules.  Four specifications share this module:                *)
(*   Spec         the structured event parser scanning structural markers  *)
(*   SpecRules    the rule evaluators of rules.ts applied to a turn list   *)
(*   SpecScope    player/team attribution and team scoping                 *)
(*   SpecDecode   decodeReplayInput                                        *)
(* Each specification leaves the other components' variables at rest.      *)
(***************************************************************************)
EXTENDS Integers, Sequences, FiniteSets, TLC

VARIABLES
    pc,                   \* position of the running component
    scanned,              \* parser: structural markers matched so far (matchAll iterator)
    turns,                \* parser: finalized turns
    currentTurn,          \* parser: the turn being accumulated
    activeGamerId,        \* parser: default gamer id for the next turns
    foundStructuredData,  \* parser: whether any marker was recognized
    parsed,               \* parser: return value of extractStructuredTurnsFromReplayXml
    unknownCodes,         \* parser: the replay's tally of unmapped codes
    replay,               \* rules/scope: the ReplayModel handed in
    context,              \* rules: TeamContext mode
    findings,             \* rules: findings returned by each evaluator run so far
    advice,               \* rules: result of findingsToTurnAdvice
    playerToTeam,         \* scope: result of buildUniquePlayerTeamMap
    inferred,             \* scope: inferTurnTeamId of every turn of the replay
    analysisTeamId,       \* scope: the team id handed to scopeReplayToTeam
    scopedReplay,         \* scope: result of scopeReplayToTeam
    scopedObjects,        \* scope: the objects the result's turns are made of
    playableTeams,        \* scope: result of selectPlayableTeams
    input,                \* decode: the raw input and what the zlib decoders make of it
    options,              \* decode: maxDecodedChars
    decoded               \* decode: DecodedReplay or the error thrown

parserVars ==
    <<scanned, turns, currentTurn, activeGamerId, foundStructuredData, parsed, unknownCodes>>
rulesVars == <<context, findings, advice>>
scopeVars ==
    <<playerToTeam, inferred, analysisTeamId, scopedReplay, scopedObjects, playableTeams>>
decodeVars == <<input, options, decoded>>
vars == <<pc, parserVars, replay, rulesVars, scopeVars, decodeVars>>
notParserVars == <<replay, rulesVars, scopeVars, decodeVars>>
notRulesVars == <<parserVars, scopeVars, decodeVars>>
notScopeVars == <<parserVars, rulesVars, decodeVars>>
notDecodeVars == <<parserVars, replay, rulesVars, scopeVars>>

(***************************************************************************)
(* JavaScript values.  undefined is None for strings and objects; an       *)
(* optional number is the empty set (undefined) or a singleton.            *)
(***************************************************************************)
None == "undefined"
NoNumber == {}
Num(n) == {n}

\* JS truthiness of an optional string: undefined and "" are falsy.
Truthy(s) == s # None /\ s # ""

\* Mutant: a ?? b taking b whatever a is.
CoalesceSecond(a, b) == b

\* a ?? b
Coalesce(a, b) == IF a # None THEN a ELSE b

Range(s) == {s[i] : i \in 1..Len(s)}

RECURSIVE SelectIndices(_, _, _)
\* indices i of 1..n (ascending) with P[i], as a sequence: Array.prototype.filter order
SelectIndices(P, i, n) ==
    IF i > n THEN <<>>
    ELSE (IF P[i] THEN <<i>> ELSE <<>>) \o SelectIndices(P, i + 1, n)

(***************************************************************************)
(* Structured event parser (extractStructuredTurnsFromReplayXml).          *)
(* The XML text is modelled by the structural markers STRUCTURED_TOKEN_REGEX*)
(* matches in it, in order; the nested base64 fragments of a sequence block *)
(* are modelled by the element trees fast-xml-parser yields for them.       *)
(***************************************************************************)
MaxTokens == 3

\* Number(text) for the decimal texts that occur in the modelled markers and fragments.
DecimalValue(text) ==
    CASE text = "0" -> 0
      [] text = "1" -> 1
      [] text = "2" -> 2
      [] text = "3" -> 3
      [] text = "4" -> 4
      [] text = "-1" -> 0 - 1

\* toNumber: undefined -> NaN -> undefined; a decimal text -> its number.
toNumber(v) == IF v = None THEN NoNumber ELSE Num(DecimalValue(v))

\* toStringValue: undefined stays undefined, anything else is its string.
toStringValue(v) == IF v = None THEN None ELSE v

\* String.prototype.trim on the carrier bodies that occur in the model.
Trim(body) ==
    CASE body = " " -> ""
      [] body = " 9 " -> "9"
      [] OTHER -> body

EmptyEvent ==
    [type |-> None, sourceTag |-> None, playerId |-> None, targetId |-> None,
     teamId |-> None, gamerId |-> None, actionCode |-> NoNumber, stepType |-> NoNumber,
     reasonCode |-> NoNumber, finishingTurnType |-> NoNumber]

\* A fragment's root element: its tag and the child elements the parser reads.
Fragment(root, stepType, playerId, pushedPlayerId, teamId, gamerId, action) ==
    [root |-> root, StepType |-> stepType, PlayerId |-> playerId,
     PushedPlayerId |-> pushedPlayerId, TargetId |-> None, TeamId |-> teamId,
     GamerId |-> gamerId, Action |-> action]

\* No <Step> payload in the block (or one that does not decode to XML).
NoFragment == Fragment(None, None, None, None, None, None, None)

\* The step's context: sequenceContext of collectSequenceEvents.
SequenceContext(step) ==
    IF step.root = None
    THEN [stepType |-> NoNumber, playerId |-> None, targetId |-> None,
          teamId |-> None, gamerId |-> None]
    ELSE [stepType |-> toNumber(step.StepType), playerId |-> toStringValue(step.PlayerId),
          targetId |-> toStringValue(step.TargetId), teamId |-> toStringValue(step.TeamId),
          gamerId |-> toStringValue(step.GamerId)]

\* The events one result fragment yields (lines 84-131): the six mapping tests
\* in source order; a fragment that does not decode or parse yields nothing.
ResultEvents(result, ctx) ==
    IF result.root = None THEN <<>>
    ELSE
    LET rootTag == result.root
        base == [EmptyEvent EXCEPT
                   !.sourceTag = rootTag,
                   !.stepType = ctx.stepType,
                   !.playerId = toStringValue(
                       Coalesce(Coalesce(result.PlayerId, result.PushedPlayerId), ctx.playerId)),
                   !.targetId = toStringValue(Coalesce(result.TargetId, ctx.targetId)),
                   !.teamId = toStringValue(Coalesce(result.TeamId, ctx.teamId)),
                   !.gamerId = toStringValue(Coalesce(result.GamerId, ctx.gamerId))]
        actionCode == toNumber(result.Action)
    IN  (IF rootTag \in {"ResultBlockRoll", "ResultBlockOutcome", "ResultPushBack"}
         THEN <<[base EXCEPT !.type = "block"]>> ELSE <<>>)
     \o (IF rootTag = "ResultUseAction" /\ actionCode = Num(2)
         THEN <<[base EXCEPT !.type = "blitz", !.actionCode = actionCode]>> ELSE <<>>)
     \o (IF rootTag = "ResultRoll" /\ ctx.stepType = Num(1)
         THEN <<[base EXCEPT !.type = "dodge"]>> ELSE <<>>)
     \o (IF rootTag \in {"QuestionTeamRerollUsage", "ResultTeamRerollUsage"}
         THEN <<[base EXCEPT !.type = "reroll"]>> ELSE <<>>)
     \o (IF rootTag \in {"ResultInjuryRoll", "ResultCasualtyRoll", "ResultPlayerRemoval"}
         THEN <<[base EXCEPT !.type = "casualty"]>> ELSE <<>>)
     \o (IF rootTag \in {"BallStep", "ResultTouchBack"}
         THEN <<[base EXCEPT !.type = "ball_state"]>> ELSE <<>>)

RECURSIVE ResultsEvents(_, _, _)
ResultsEvents(results, i, ctx) ==
    IF i > Len(results) THEN <<>>
    ELSE ResultEvents(results[i], ctx) \o ResultsEvents(results, i + 1, ctx)

\* Mutant: the loop over the result fragments ends at the first fragment that
\* yields no event (break for continue).
collectSequenceEventsStoppingAtUnmapped(block) ==
    LET ctx == SequenceContext(block.step)
        yielding == {i \in 1..Len(block.results) : ResultEvents(block.results[i], ctx) = <<>>}
        last == IF yielding = {} THEN Len(block.results)
                ELSE (CHOOSE i \in yielding : \A j \in yielding : i <= j) - 1
    IN  (IF block.step.root = "BallStep"
         THEN <<[EmptyEvent EXCEPT
                   !.type = "ball_state", !.sourceTag = "BallStep",
                   !.stepType = ctx.stepType, !.playerId = ctx.playerId,
                   !.targetId = ctx.targetId, !.teamId = ctx.teamId,
                   !.gamerId = ctx.gamerId]>>
         ELSE <<>>)
        \o ResultsEvents(SubSeq(block.results, 1, last), 1, ctx)

collectSequenceEvents(block) ==
    LET ctx == SequenceContext(block.step)
        stepEvents ==
            IF block.step.root = "BallStep"
            THEN <<[EmptyEvent EXCEPT
                      !.type = "ball_state", !.sourceTag = "BallStep",
                      !.stepType = ctx.stepType, !.playerId = ctx.playerId,
                      !.targetId = ctx.targetId, !.teamId = ctx.teamId,
                      !.gamerId = ctx.gamerId]>>
            ELSE <<>>
    IN  stepEvents \o ResultsEvents(block.results, 1, ctx)

\* The tally of unmapped codes the replay model carries (ReplayModel, "tally of
\* unmapped codes"; reported as category, code, occurrences).  The key of a
\* result fragment that maps to no event: the action code of a ResultUseAction,
\* the step-type code a ResultRoll occurred under, else the fragment's root tag.
unknownCodeOf(result, ctx) ==
    CASE result.root = "ResultUseAction" ->
            [category |-> "action", code |-> toNumber(result.Action)]
      [] result.root = "ResultRoll" ->
            [category |-> "roll", code |-> ctx.stepType]
      [] OTHER ->
            [category |-> "result", code |-> result.root]

\* One more occurrence of the key in the tally.
countUnknownCode(tally, key) ==
    [k \in DOMAIN tally \cup {key} |->
        (IF k \in DOMAIN tally THEN tally[k] ELSE 0) + (IF k = key THEN 1 ELSE 0)]

\* The tally after the result fragments of one block: every fragment with a
\* root tag that yields no event is counted once, the others not at all.
RECURSIVE tallyUnknownCodes(_, _, _, _)
tallyUnknownCodes(tally, results, i, ctx) ==
    IF i > Len(results) THEN tally
    ELSE LET result == results[i]
             counted == IF result.root # None /\ ResultEvents(result, ctx) = <<>>
                        THEN countUnknownCode(tally, unknownCodeOf(result, ctx))
                        ELSE tally
         IN  tallyUnknownCodes(counted, results, i + 1, ctx)

\* Mutant: the new turn is opened without the active gamer.
buildTurnWithoutGamer(turnNumber, gamerId) ==
    [turnNumber |-> turnNumber, teamId |-> None, gamerId |-> None,
     ballCarrierPlayerId |-> None, possibleTurnover |-> FALSE,
     endTurnReason |-> NoNumber, finishingTurnType |-> NoNumber,
     events |-> <<>>, eventCount |-> 0, raw |-> <<>>]

buildTurn(turnNumber, gamerId) ==
    [turnNumber |-> turnNumber, teamId |-> None, gamerId |-> gamerId,
     ballCarrierPlayerId |-> None, possibleTurnover |-> FALSE,
     endTurnReason |-> NoNumber, finishingTurnType |-> NoNumber,
     events |-> <<>>, eventCount |-> 0, raw |-> <<>>]

\* finalizeTurn: the copy with eventCount and the raw snapshot filled in
\* (actionTexts, a display list no modelled operation reads, is left out).
finalizeTurn(turn) ==
    [turn EXCEPT
        !.eventCount = Len(turn.events),
        !.raw = [gamerId |-> turn.gamerId, endTurnReason |-> turn.endTurnReason,
                 finishingTurnType |-> turn.finishingTurnType]]

\* events.find(e => e.<field> !== undefined)?.<field>
FirstDefined(events, field) ==
    LET hits == {i \in 1..Len(events) : events[i][field] # None}
    IN  IF hits = {} THEN None
        ELSE events[CHOOSE i \in hits : \A j \in hits : i <= j][field]

applySequenceEventsToTurn(turn, events) ==
    IF Len(events) = 0 THEN turn
    ELSE LET pushed == [turn EXCEPT !.events = turn.events \o events]
             teamed == IF ~Truthy(pushed.teamId)
                       THEN [pushed EXCEPT !.teamId = FirstDefined(events, "teamId")]
                       ELSE pushed
         IN  IF ~Truthy(teamed.gamerId)
             THEN [teamed EXCEPT !.gamerId = FirstDefined(events, "gamerId")]
             ELSE teamed

\* Mutant: the undefined-reason test of line 242 dropped.
IsTurnoverReasonNoPresenceTest(reason) == reason # Num(1)

\* Line 242: the end-turn reasons that mark the closed turn as a turnover.
IsTurnoverReason(reason) == reason # NoNumber /\ reason # Num(1)

\* Lines 235-250: the current turn as the end-turn marker leaves it.
\* Mutant: the turnover flag is set without the turnover event being appended.
closeTurnFlagOnly(turn, marker) ==
    LET reason == toNumber(marker.reason)
    IN  [turn EXCEPT !.endTurnReason = reason,
                     !.finishingTurnType = toNumber(marker.finishingTurnType),
                     !.possibleTurnover = IsTurnoverReason(reason)]

closeTurn(turn, marker) ==
    LET reason == toNumber(marker.reason)
        finishingTurnType == toNumber(marker.finishingTurnType)
        stamped == [turn EXCEPT !.endTurnReason = reason,
                                !.finishingTurnType = finishingTurnType]
    IN  IF IsTurnoverReason(reason)
        THEN [stamped EXCEPT
                !.possibleTurnover = TRUE,
                !.events = stamped.events \o
                    <<[EmptyEvent EXCEPT !.type = "turnover", !.sourceTag = "EventEndTurn",
                                         !.reasonCode = reason,
                                         !.finishingTurnType = finishingTurnType]>>]
        ELSE stamped

\* Mutant: ">= 0" for "> 0" at line 258, so the trailing turn is always flushed.
HasTrailingTurnAlways(turn) == Len(turn.events) >= 0 \/ Truthy(turn.ballCarrierPlayerId)

\* Line 258: whether the trailing partial turn is flushed.
HasTrailingTurn(turn) == Len(turn.events) > 0 \/ Truthy(turn.ballCarrierPlayerId)

(* The markers the scan is fed. *)
GamerBodies == {None, "g0", "g1"}
CarrierBodies == {"", "-1", "7", " 9 "}
EndTurnMarkers ==
    {[reason |-> None, finishingTurnType |-> None],
     [reason |-> "1", finishingTurnType |-> "0"],
     [reason |-> "2", finishingTurnType |-> "0"],
     [reason |-> "4", finishingTurnType |-> None]}

PlayerStep(stepType, playerId, teamId, gamerId) ==
    Fragment("PlayerStep", stepType, playerId, None, teamId, gamerId, None)
Result(root) == Fragment(root, None, None, None, None, None, None)

Blocks ==
    { \* a dodge roll under step type 1
      [step |-> PlayerStep("1", "7", "0", "g0"), results |-> <<Result("ResultRoll")>>],
      \* a dodge roll that names its own player
      [step |-> PlayerStep("1", "7", "0", "g0"),
       results |-> <<Fragment("ResultRoll", None, "9", None, None, None, None)>>],
      \* the same roll under another step type: not mapped
      [step |-> PlayerStep("0", "9", None, None), results |-> <<Result("ResultRoll")>>],
      \* a block roll naming its own player and team, no step payload
      [step |-> NoFragment,
       results |-> <<Fragment("ResultBlockRoll", None, "9", None, "1", None, None)>>],
      \* a blitz declaration followed by an unmapped result
      [step |-> PlayerStep("2", "7", None, "g1"),
       results |-> <<Fragment("ResultUseAction", None, None, None, None, None, "2"),
                     Result("ResultMoveOutcome")>>],
      \* a declaration with another action code, then a block roll
      [step |-> PlayerStep("2", "7", None, "g1"),
       results |-> <<Fragment("ResultUseAction", None, None, None, None, None, "1"),
                     Result("ResultBlockRoll")>>],
      \* a ball step
      [step |-> Fragment("BallStep", "3", "9", None, "1", None, None), results |-> <<>>] }

ParserInit ==
    /\ scanned = <<>>
    /\ turns = <<>>
    /\ activeGamerId = None
    /\ currentTurn = buildTurn(1, None)
    /\ foundStructuredData = FALSE
    /\ parsed = None
    /\ unknownCodes = <<>>

ParserRest ==
    /\ scanned = <<>>
    /\ turns = <<>>
    /\ activeGamerId = None
    /\ currentTurn = None
    /\ foundStructuredData = FALSE
    /\ parsed = None
    /\ unknownCodes = <<>>

Scanning == pc = "scan" /\ Len(scanned) < MaxTokens

\* <EventActiveGamerChanged>: lines 198-209
ActiveGamerChanged(newGamer) ==
    /\ Scanning
    /\ scanned' = Append(scanned, [tag |-> "EventActiveGamerChanged", body |-> newGamer])
    /\ IF Truthy(newGamer)
       THEN /\ activeGamerId' = newGamer
            /\ currentTurn' = IF ~Truthy(currentTurn.gamerId)
                              THEN [currentTurn EXCEPT !.gamerId = newGamer]
                              ELSE currentTurn
       ELSE UNCHANGED <<activeGamerId, currentTurn>>
    /\ foundStructuredData' = TRUE
    /\ UNCHANGED <<pc, turns, parsed, unknownCodes, notParserVars>>

\* <Carrier>: lines 211-224
Carrier(body) ==
    /\ Scanning
    /\ scanned' = Append(scanned, [tag |-> "Carrier", body |-> body])
    /\ LET carrierId == Trim(body)
       IN  IF carrierId # "" /\ carrierId # "-1"
           THEN currentTurn' =
                  [currentTurn EXCEPT
                     !.ballCarrierPlayerId = carrierId,
                     !.events = currentTurn.events \o
                        <<[EmptyEvent EXCEPT !.type = "ball_state", !.sourceTag = "Carrier",
                                             !.playerId = carrierId]>>]
           ELSE UNCHANGED currentTurn
    /\ foundStructuredData' = TRUE
    /\ UNCHANGED <<pc, turns, activeGamerId, parsed, unknownCodes, notParserVars>>

\* <EventExecuteSequence>: lines 226-232
ExecuteSequence(block) ==
    /\ Scanning
    /\ scanned' = Append(scanned, [tag |-> "EventExecuteSequence", body |-> block])
    /\ currentTurn' = applySequenceEventsToTurn(currentTurn, collectSequenceEvents(block))
    /\ unknownCodes' = tallyUnknownCodes(unknownCodes, block.results, 1,
                                          SequenceContext(block.step))
    /\ foundStructuredData' = TRUE
    /\ UNCHANGED <<pc, turns, activeGamerId, parsed, notParserVars>>

\* <EventEndTurn>: lines 234-255
EndTurn(marker) ==
    /\ Scanning
    /\ scanned' = Append(scanned, [tag |-> "EventEndTurn", body |-> marker])
    /\ turns' = Append(turns, finalizeTurn(closeTurn(currentTurn, marker)))
    /\ currentTurn' = buildTurn(currentTurn.turnNumber + 1, activeGamerId)
    /\ foundStructuredData' = TRUE
    /\ UNCHANGED <<pc, activeGamerId, parsed, unknownCodes, notParserVars>>

\* The scan is exhausted: lines 258-262
EndOfScan ==
    /\ pc = "scan"
    /\ pc' = "returned"
    /\ LET flushed == IF HasTrailingTurn(currentTurn)
                      THEN Append(turns, finalizeTurn(currentTurn))
                      ELSE turns
       IN  /\ turns' = flushed
           /\ parsed' = IF foundStructuredData THEN flushed ELSE <<>>
    /\ UNCHANGED <<scanned, currentTurn, activeGamerId, foundStructuredData, unknownCodes,
                   notParserVars>>


(***************************************************************************)
(* Heuristic rule engine (rules.ts).  A finding keeps the fields the claims *)
(* read: id, severity, category, turnNumber.                                *)
(***************************************************************************)
MaxByCategory == 6

\* Mutant: the category prefix left out of the id.
findingIdWithoutPrefix(prefix, turn) == "turn-" \o ToString(turn)

findingId(prefix, turn) == prefix \o "-turn-" \o ToString(turn)

MakeFinding(prefix, category, severity, turn) ==
    [id |-> findingId(prefix, turn.turnNumber), severity |-> severity,
     category |-> category, turnNumber |-> turn.turnNumber]

countEvents(turn, eventType) ==
    Cardinality({i \in 1..Len(turn.events) : turn.events[i].type = eventType})

\* events.findIndex(e => e.type === eventType), 0-based, -1 when absent
findIndexOfType(events, eventType) ==
    LET hits == {i \in 1..Len(events) : events[i].type = eventType}
    IN  IF hits = {} THEN 0 - 1
        ELSE (CHOOSE i \in hits : \A j \in hits : i <= j) - 1

hasRiskyActionBeforeBallSafety(turn) ==
    LET firstBallIndex == findIndexOfType(turn.events, "ball_state")
    IN  IF firstBallIndex <= 0 THEN FALSE
        ELSE \E i \in 1..firstBallIndex :
                 turn.events[i].type \in {"dodge", "block", "blitz"}

RECURSIVE limitFrom(_, _, _, _)
\* the filter of limitFindings from index i on, byCategory being the counts so far
limitFrom(list, i, byCategory, maxByCategory) ==
    IF i > Len(list) THEN <<>>
    ELSE LET category == list[i].category
             count == IF category \in DOMAIN byCategory THEN byCategory[category] ELSE 0
         IN  IF count >= maxByCategory
             THEN limitFrom(list, i + 1, byCategory, maxByCategory)
             ELSE <<list[i]>> \o
                  limitFrom(list, i + 1,
                            [c \in DOMAIN byCategory \cup {category} |->
                                IF c = category THEN count + 1 ELSE byCategory[c]],
                            maxByCategory)

limitFindings(list) == limitFrom(list, 1, <<>>, MaxByCategory)

SeverityOf(turn) == IF turn.possibleTurnover THEN "high" ELSE "medium"

\* The findings a rule pushes, one per turn its test lets through, in turn order.
PushedFindings(ts, passes, prefix, category, severity) ==
    LET idx == SelectIndices(passes, 1, Len(ts))
    IN  [k \in 1..Len(idx) |->
            MakeFinding(prefix, category, severity[idx[k]], ts[idx[k]])]

AlwaysSeverity(ts, severity) == [i \in 1..Len(ts) |-> severity]
TurnoverSeverity(ts) == [i \in 1..Len(ts) |-> SeverityOf(ts[i])]

TurnoverCausePushed(rp, ctx) ==
    PushedFindings(rp.turns,
                   [i \in 1..Len(rp.turns) |-> rp.turns[i].possibleTurnover],
                   "turnover-cause", "turnover_cause", AlwaysSeverity(rp.turns, "high"))

evaluateTurnoverCause(rp, ctx) == TurnoverCausePushed(rp, ctx)

ActionOrderingPushed(rp, ctx) ==
    PushedFindings(rp.turns,
                   [i \in 1..Len(rp.turns) |-> hasRiskyActionBeforeBallSafety(rp.turns[i])],
                   "action-order", "action_ordering", AlwaysSeverity(rp.turns, "medium"))

evaluateActionOrdering(rp, ctx) == limitFindings(ActionOrderingPushed(rp, ctx))

RerollTimingPasses(turn) ==
    LET firstRerollIndex == findIndexOfType(turn.events, "reroll")
        riskyAfterReroll ==
            Cardinality({i \in (firstRerollIndex + 2)..Len(turn.events) :
                            turn.events[i].type \in {"dodge", "block", "blitz", "foul"}})
    IN  /\ countEvents(turn, "reroll") # 0
        /\ firstRerollIndex >= 0
        /\ ~(riskyAfterReroll < 2 /\ ~turn.possibleTurnover)

RerollTimingPushed(rp, ctx) ==
    PushedFindings(rp.turns,
                   [i \in 1..Len(rp.turns) |-> RerollTimingPasses(rp.turns[i])],
                   "reroll-timing", "reroll_timing", TurnoverSeverity(rp.turns))

evaluateRerollTiming(rp, ctx) == limitFindings(RerollTimingPushed(rp, ctx))

RECURSIVE BallSafetyFromForgetful(_, _, _)
\* Mutant: previousCarrier overwritten on every turn, also by a turn without carrier.
BallSafetyFromForgetful(ts, i, previousCarrier) ==
    IF i > Len(ts) THEN <<>>
    ELSE LET carrier == ts[i].ballCarrierPlayerId
         IN  (IF Truthy(carrier) /\ Truthy(previousCarrier) /\ carrier # previousCarrier
              THEN <<MakeFinding("ball-safety", "ball_safety", "medium", ts[i])>>
              ELSE <<>>)
             \o BallSafetyFromForgetful(ts, i + 1, carrier)

RECURSIVE BallSafetyFrom(_, _, _)
\* the loop of evaluateBallSafety from turn i on, previousCarrier as the loop holds it
BallSafetyFrom(ts, i, previousCarrier) ==
    IF i > Len(ts) THEN <<>>
    ELSE LET carrier == ts[i].ballCarrierPlayerId
         IN  (IF Truthy(carrier) /\ Truthy(previousCarrier) /\ carrier # previousCarrier
              THEN <<MakeFinding("ball-safety", "ball_safety", "medium", ts[i])>>
              ELSE <<>>)
             \o BallSafetyFrom(ts, i + 1,
                               IF Truthy(carrier) THEN carrier ELSE previousCarrier)

BallSafetyPushed(rp, ctx) == BallSafetyFrom(rp.turns, 1, None)

evaluateBallSafety(rp, ctx) == BallSafetyPushed(rp, ctx)

\* Mutant: the support actions not counted.
CageSafetyPassesIgnoringSupport(turn) ==
    LET riskyActions == countEvents(turn, "dodge") + countEvents(turn, "foul")
    IN  /\ Truthy(turn.ballCarrierPlayerId)
        /\ ~(riskyActions < 2 /\ ~turn.possibleTurnover)

CageSafetyPasses(turn) ==
    LET supportActions == countEvents(turn, "block") + countEvents(turn, "blitz")
        riskyActions == countEvents(turn, "dodge") + countEvents(turn, "foul")
    IN  /\ Truthy(turn.ballCarrierPlayerId)
        /\ ~(supportActions > 0 \/ (riskyActions < 2 /\ ~turn.possibleTurnover))

CageSafetyPushed(rp, ctx) ==
    PushedFindings(rp.turns,
                   [i \in 1..Len(rp.turns) |-> CageSafetyPasses(rp.turns[i])],
                   "cage-safety", "cage_safety", TurnoverSeverity(rp.turns))

evaluateCageSafety(rp, ctx) == limitFindings(CageSafetyPushed(rp, ctx))

ScreenLanesPasses(turn) ==
    LET blockAndBlitz == countEvents(turn, "block") + countEvents(turn, "blitz")
        dodges == countEvents(turn, "dodge")
    IN  ~(blockAndBlitz > 0 \/ dodges < 2)

ScreenLanesPushed(rp, ctx) ==
    IF ctx = "offense" THEN <<>>
    ELSE PushedFindings(rp.turns,
                        [i \in 1..Len(rp.turns) |-> ScreenLanesPasses(rp.turns[i])],
                        "screen-lanes", "screen_lanes", AlwaysSeverity(rp.turns, "medium"))

evaluateScreenLanes(rp, ctx) ==
    IF ctx = "offense" THEN <<>> ELSE limitFindings(ScreenLanesPushed(rp, ctx))

BlitzValuePasses(turn) ==
    /\ countEvents(turn, "blitz") # 0
    /\ ~(~turn.possibleTurnover /\ countEvents(turn, "casualty") > 0)
    /\ ~(~turn.possibleTurnover /\ countEvents(turn, "block") >= 2)

BlitzValuePushed(rp, ctx) ==
    PushedFindings(rp.turns,
                   [i \in 1..Len(rp.turns) |-> BlitzValuePasses(rp.turns[i])],
                   "blitz-value", "blitz_value", TurnoverSeverity(rp.turns))

evaluateBlitzValue(rp, ctx) == limitFindings(BlitzValuePushed(rp, ctx))

\* Mutant: the test for a foul in the turn (lines 360-363) left out.
FoulTimingPassesWithoutFoulTest(turn) ==
    LET firstFoulIndex == findIndexOfType(turn.events, "foul")
        firstBallStateIndex == findIndexOfType(turn.events, "ball_state")
        foulBeforeBallSafety ==
            firstFoulIndex >= 0 /\ (firstBallStateIndex < 0 \/ firstFoulIndex < firstBallStateIndex)
    IN  ~(~turn.possibleTurnover /\ ~foulBeforeBallSafety)

FoulTimingPasses(turn) ==
    LET firstFoulIndex == findIndexOfType(turn.events, "foul")
        firstBallStateIndex == findIndexOfType(turn.events, "ball_state")
        foulBeforeBallSafety ==
            firstFoulIndex >= 0 /\ (firstBallStateIndex < 0 \/ firstFoulIndex < firstBallStateIndex)
    IN  /\ countEvents(turn, "foul") # 0
        /\ ~(~turn.possibleTurnover /\ ~foulBeforeBallSafety)

FoulTimingPushed(rp, ctx) ==
    PushedFindings(rp.turns,
                   [i \in 1..Len(rp.turns) |-> FoulTimingPasses(rp.turns[i])],
                   "foul-timing", "foul_timing", TurnoverSeverity(rp.turns))

evaluateFoulTiming(rp, ctx) == limitFindings(FoulTimingPushed(rp, ctx))

(***************************************************************************)
(* SpecRules: the eight evaluators run over one replay, in the order       *)
(* rules.ts defines them.  The replay's turn list is a freely varied head   *)
(* of at most MaxVariedTurns turns followed by copies of one turn, up to    *)
(* MaxRuleTurns turns in all, numbered 1..n as the parser and the scoping   *)
(* number them.                                                             *)
(***************************************************************************)
MaxRuleTurns == 8
MaxVariedTurns == 2

Ev(type) == [EmptyEvent EXCEPT !.type = type, !.sourceTag = type]
TypedEvents(types) == [i \in 1..Len(types) |-> Ev(types[i])]

TurnShape(carrier, turnover, types) ==
    [ballCarrierPlayerId |-> carrier, possibleTurnover |-> turnover,
     events |-> TypedEvents(types)]

RuleShapes ==
    { \* a quiet turn
      TurnShape(None, FALSE, <<>>),
      \* dodges before the ball is secured, by the carrier's side
      TurnShape("9", FALSE, <<"dodge", "dodge", "ball_state">>),
      \* a failed dodge ends the turn
      TurnShape(None, TRUE, <<"dodge", "turnover">>),
      \* a reroll spent before a block and a blitz
      TurnShape(None, FALSE, <<"reroll", "block", "blitz">>),
      \* fouls while holding the ball
      TurnShape("7", FALSE, <<"foul", "foul">>),
      \* reroll, blitz and foul in a turn that ends early
      TurnShape("9", TRUE, <<"reroll", "blitz", "foul", "turnover">>),
      \* the carrier's turn ends early with no block or blitz thrown
      TurnShape("7", TRUE, <<"dodge", "turnover">>),
      \* a foul after the ball is picked up
      TurnShape("9", FALSE, <<"ball_state", "foul">>),
      \* the same, in a turn that ends early
      TurnShape("9", TRUE, <<"ball_state", "block", "foul", "turnover">>) }

\* A ReplayTurn of the given shape.
ShapedTurn(turnNumber, teamId, shape) ==
    [buildTurn(turnNumber, None) EXCEPT
        !.teamId = teamId,
        !.ballCarrierPlayerId = shape.ballCarrierPlayerId,
        !.possibleTurnover = shape.possibleTurnover,
        !.events = shape.events,
        !.eventCount = Len(shape.events)]

RECURSIVE SeqsUpTo(_, _)
\* the sequences over S of length at most n
SeqsUpTo(S, n) ==
    IF n = 0 THEN {<<>>}
    ELSE LET shorter == SeqsUpTo(S, n - 1)
         IN  shorter \cup {Append(q, x) : q \in {r \in shorter : Len(r) = n - 1}, x \in S}

\* The roster and teams of tests/unit/rulesPlayerLinking.test.ts.
FixtureTeams == <<[id |-> "0", name |-> "Team Zero"], [id |-> "1", name |-> "Team One"]>>
FixtureRoster == << <<"0", ":", "9">>, <<"1", ":", "9">>, <<"1", ":", "7">> >>

RuleOrder ==
    <<"turnover_cause", "action_ordering", "reroll_timing", "ball_safety",
      "cage_safety", "screen_lanes", "blitz_value", "foul_timing">>
Rules == Range(RuleOrder)

RulesInit ==
    /\ pc = "turnover_cause"
    /\ context \in {"offense", "mixed"}
    /\ findings = <<>>
    /\ advice = None
    /\ \E head \in SeqsUpTo(RuleShapes, MaxVariedTurns), filler \in RuleShapes,
          n \in 0..MaxRuleTurns :
          /\ n >= Len(head)
          /\ replay = [teams |-> FixtureTeams,
                       playerNamesByTeamAndId |-> FixtureRoster,
                       turns |-> [i \in 1..n |->
                                     ShapedTurn(i, "0",
                                                IF i <= Len(head) THEN head[i] ELSE filler)]]

\* What follows a rule in the pipeline.
AfterRule(rule) ==
    LET k == CHOOSE i \in 1..Len(RuleOrder) : RuleOrder[i] = rule
    IN  IF k = Len(RuleOrder) THEN "analyzed" ELSE RuleOrder[k + 1]

RunRule(rule, result) ==
    /\ pc = rule
    /\ findings' = findings @@ (rule :> result)
    /\ pc' = AfterRule(rule)
    /\ UNCHANGED <<replay, context, advice, notRulesVars>>

EvaluateTurnoverCause == RunRule("turnover_cause", evaluateTurnoverCause(replay, context))
EvaluateActionOrdering == RunRule("action_ordering", evaluateActionOrdering(replay, context))
EvaluateRerollTiming == RunRule("reroll_timing", evaluateRerollTiming(replay, context))
EvaluateBallSafety == RunRule("ball_safety", evaluateBallSafety(replay, context))
EvaluateCageSafety == RunRule("cage_safety", evaluateCageSafety(replay, context))
EvaluateScreenLanes == RunRule("screen_lanes", evaluateScreenLanes(replay, context))
EvaluateBlitzValue == RunRule("blitz_value", evaluateBlitzValue(replay, context))
EvaluateFoulTiming == RunRule("foul_timing", evaluateFoulTiming(replay, context))

NextRules ==
    \/ EvaluateTurnoverCause
    \/ EvaluateActionOrdering
    \/ EvaluateRerollTiming
    \/ EvaluateBallSafety
    \/ EvaluateCageSafety
    \/ EvaluateScreenLanes
    \/ EvaluateBlitzValue
    \/ EvaluateFoulTiming

(***************************************************************************)
(* Conversion of findings to advice (findingsToTurnAdvice, rules.ts        *)
(* 397-413).  A finding's turn number is optional; its title stands for    *)
(* the texts toTurnAdvice copies and is distinct for each finding.         *)
(***************************************************************************)
MaxAdviceItems == 16

confidenceFromSeverity(severity) ==
    IF severity = "high" THEN "high"
    ELSE IF severity = "medium" THEN "medium"
    ELSE "low"

\* finding.turnNumber ?? 0
turnNumberOrZero(finding) ==
    IF finding.turnNumber = NoNumber THEN 0 ELSE CHOOSE n \in finding.turnNumber : TRUE

toTurnAdvice(finding) ==
    [turnNumber |-> turnNumberOrZero(finding), happened |-> finding.title,
     confidence |-> confidenceFromSeverity(finding.severity)]

\* const severityScore = { high: 3, medium: 2, low: 1 }
severityScore(severity) ==
    CASE severity = "high" -> 3
      [] severity = "medium" -> 2
      [] severity = "low" -> 1

\* Mutant: the first sort left out, so only the sort by turn number orders the items.
SortBySeverityThenTurnSkipped(list) == list

\* The first sort (stable): severity descending, then turn number ascending.
SortBySeverityThenTurn(list) ==
    LET compare(i, j) ==
            LET severityDelta == severityScore(list[j].severity) - severityScore(list[i].severity)
            IN  IF severityDelta # 0 THEN severityDelta
                ELSE turnNumberOrZero(list[i]) - turnNumberOrZero(list[j])
        before(i, j) == compare(i, j) < 0 \/ (compare(i, j) = 0 /\ i < j)
        rank == [i \in 1..Len(list) |->
                    1 + Cardinality({j \in 1..Len(list) : j # i /\ before(j, i)})]
    IN  [k \in 1..Len(list) |-> list[CHOOSE i \in 1..Len(list) : rank[i] = k]]

\* The second sort (stable): .sort((a, b) => a.turnNumber - b.turnNumber)
SortByTurnNumber(list) ==
    LET before(i, j) ==
            \/ list[i].turnNumber < list[j].turnNumber
            \/ (list[i].turnNumber = list[j].turnNumber /\ i < j)
        rank == [i \in 1..Len(list) |->
                    1 + Cardinality({j \in 1..Len(list) : j # i /\ before(j, i)})]
    IN  [k \in 1..Len(list) |-> list[CHOOSE i \in 1..Len(list) : rank[i] = k]]

findingsToTurnAdvice(list) ==
    LET numbered == SelectIndices([i \in 1..Len(list) |-> list[i].turnNumber # NoNumber],
                                  1, Len(list))
        filtered == [k \in 1..Len(numbered) |-> list[numbered[k]]]
        sorted == SortBySeverityThenTurn(filtered)
        mapped == [k \in 1..Len(sorted) |-> toTurnAdvice(sorted[k])]
        resorted == SortByTurnNumber(mapped)
    IN  SubSeq(resorted, 1,
               IF Len(resorted) < MaxAdviceItems THEN Len(resorted) ELSE MaxAdviceItems)

(* The findings handed in: a freely varied head followed by copies of one     *)
(* kind of finding, each with its own title.                                  *)
MaxFindings == 17
MaxVariedFindings == 2

FindingKinds ==
    {[severity |-> "high", turnNumber |-> NoNumber],
     [severity |-> "high", turnNumber |-> Num(1)],
     [severity |-> "medium", turnNumber |-> Num(1)],
     [severity |-> "low", turnNumber |-> Num(1)],
     [severity |-> "high", turnNumber |-> Num(2)],
     [severity |-> "medium", turnNumber |-> Num(2)]}

AdviceInit ==
    /\ pc = "advise"
    /\ context = None
    /\ advice = None
    /\ \E head \in SeqsUpTo(FindingKinds, MaxVariedFindings), filler \in FindingKinds,
          n \in 0..MaxFindings :
          /\ n >= Len(head)
          /\ findings = [i \in 1..n |->
                           LET kind == IF i <= Len(head) THEN head[i] ELSE filler
                           IN  [title |-> i, severity |-> kind.severity,
                                turnNumber |-> kind.turnNumber]]

FindingsToTurnAdvice ==
    /\ pc = "advise"
    /\ advice' = findingsToTurnAdvice(findings)
    /\ pc' = "advised"
    /\ UNCHANGED <<replay, context, findings, notRulesVars>>

NextAdvice == FindingsToTurnAdvice

(***************************************************************************)
(* Team attribution and scoping (analyzeReplay.ts, lines 49-253).          *)
(* A roster key is the sequence of its characters, e.g. <<"0", ":", "9">>. *)
(***************************************************************************)
MaxScopedTurns == 16

RECURSIVE Join(_)
\* the string made of the characters of chars
Join(chars) == IF chars = <<>> THEN "" ELSE Head(chars) \o Join(Tail(chars))

\* String.prototype.indexOf, 0-based, -1 when absent
IndexOf(chars, c) ==
    LET hits == {i \in 1..Len(chars) : chars[i] = c}
    IN  IF hits = {} THEN 0 - 1
        ELSE (CHOOSE i \in hits : \A j \in hits : i <= j) - 1

\* key.slice(from, to), 0-based, to exclusive
Slice(chars, from, to) == SubSeq(chars, from + 1, to)

\* What the loop makes of a key it skips (the continue of lines 61 and 67).
Skipped == [teamId |-> None, playerId |-> None]

\* Lines 59-68: the (team, player) a roster key names, or Skipped.
SplitKey(key) ==
    LET separatorIndex == IndexOf(key, ":")
    IN  IF separatorIndex <= 0 \/ separatorIndex >= Len(key) - 1 THEN Skipped
        ELSE LET teamId == Join(Slice(key, 0, separatorIndex))
                 playerId == Join(Slice(key, separatorIndex + 1, Len(key)))
             IN  IF teamId = "" \/ playerId = "" THEN Skipped
                 ELSE [teamId |-> teamId, playerId |-> playerId]

\* map.set(k, v)
MapSet(map, k, v) == [x \in DOMAIN map \cup {k} |-> IF x = k THEN v ELSE map[x]]
\* map.delete(k)
MapDelete(map, k) == [x \in DOMAIN map \ {k} |-> map[x]]
\* map.get(k), undefined when absent
MapGet(map, k) == IF k \in DOMAIN map THEN map[k] ELSE None

RECURSIVE MapFromKeysWithoutFinalRemoval(_, _, _, _)
\* Mutant: the loop alone, without the final removal of the conflicting ids.
MapFromKeysWithoutFinalRemoval(keys, i, map, conflictingIds) ==
    IF i > Len(keys) THEN map
    ELSE LET split == SplitKey(keys[i])
         IN  IF split = Skipped
             THEN MapFromKeysWithoutFinalRemoval(keys, i + 1, map, conflictingIds)
             ELSE LET existing == MapGet(map, split.playerId)
                  IN  IF ~Truthy(existing)
                      THEN MapFromKeysWithoutFinalRemoval(keys, i + 1,
                               MapSet(map, split.playerId, split.teamId), conflictingIds)
                      ELSE IF existing # split.teamId
                           THEN MapFromKeysWithoutFinalRemoval(keys, i + 1,
                                    MapDelete(map, split.playerId),
                                    conflictingIds \cup {split.playerId})
                           ELSE MapFromKeysWithoutFinalRemoval(keys, i + 1, map,
                                                               conflictingIds)

RECURSIVE MapFromKeys(_, _, _, _)
\* Lines 58-86: the loop over Object.keys(byTeam) from key i on, then the
\* final removal of the conflicting ids.
MapFromKeys(keys, i, map, conflictingIds) ==
    IF i > Len(keys)
    THEN [x \in DOMAIN map \ conflictingIds |-> map[x]]
    ELSE LET split == SplitKey(keys[i])
         IN  IF split = Skipped THEN MapFromKeys(keys, i + 1, map, conflictingIds)
             ELSE LET existing == MapGet(map, split.playerId)
                  IN  IF ~Truthy(existing)
                      THEN MapFromKeys(keys, i + 1,
                               MapSet(map, split.playerId, split.teamId), conflictingIds)
                      ELSE IF existing # split.teamId
                           THEN MapFromKeys(keys, i + 1, MapDelete(map, split.playerId),
                                            conflictingIds \cup {split.playerId})
                           ELSE MapFromKeys(keys, i + 1, map, conflictingIds)

buildUniquePlayerTeamMap(rp) == MapFromKeys(rp.playerNamesByTeamAndId, 1, <<>>, {})

\* Lines 106-111
EventWeight(type) ==
    IF type \in {"dodge", "blitz", "foul", "reroll"} THEN 4
    ELSE IF type = "block" THEN 2 ELSE 1

\* addScore on weightedScores, a Map kept as its entries in insertion order
addScore(scores, teamId, score) ==
    IF \E k \in 1..Len(scores) : scores[k].teamId = teamId
    THEN [k \in 1..Len(scores) |->
             IF scores[k].teamId = teamId
             THEN [teamId |-> teamId, score |-> scores[k].score + score]
             ELSE scores[k]]
    ELSE Append(scores, [teamId |-> teamId, score |-> score])

RECURSIVE EventScores(_, _, _, _)
\* Lines 96-114: the loop over turn.events from event i on
EventScores(events, i, map, scores) ==
    IF i > Len(events) THEN scores
    ELSE LET event == events[i]
             ownerTeamId == MapGet(map, event.playerId)
         IN  IF ~Truthy(event.playerId) \/ ~Truthy(ownerTeamId)
             THEN EventScores(events, i + 1, map, scores)
             ELSE EventScores(events, i + 1, map,
                              addScore(scores, ownerTeamId, EventWeight(event.type)))

\* Array.prototype.sort((a, b) => b.score - a.score): stable, descending by score
SortByScoreDesc(entries) ==
    LET before(i, j) ==
            \/ entries[i].score > entries[j].score
            \/ (entries[i].score = entries[j].score /\ i < j)
        rank(i) == 1 + Cardinality({j \in 1..Len(entries) : j # i /\ before(j, i)})
    IN  [k \in 1..Len(entries) |->
            entries[CHOOSE i \in 1..Len(entries) : rank(i) = k]]

\* Mutant: the tie test of line 132 left out.
inferTurnTeamIdFirstRanked(turn, map) ==
    LET fromEvents == EventScores(turn.events, 1, map, <<>>)
        carrierTeamId == MapGet(map, turn.ballCarrierPlayerId)
        withCarrier ==
            IF Truthy(turn.ballCarrierPlayerId) /\ Truthy(carrierTeamId)
            THEN addScore(fromEvents, carrierTeamId, 2) ELSE fromEvents
        weightedScores ==
            IF Truthy(turn.teamId) THEN addScore(withCarrier, turn.teamId, 1) ELSE withCarrier
        ranked == SortByScoreDesc(weightedScores)
    IN  IF Len(ranked) = 0 THEN None ELSE ranked[1].teamId

inferTurnTeamId(turn, map) ==
    LET fromEvents == EventScores(turn.events, 1, map, <<>>)
        carrierTeamId == MapGet(map, turn.ballCarrierPlayerId)
        withCarrier ==
            IF Truthy(turn.ballCarrierPlayerId) /\ Truthy(carrierTeamId)
            THEN addScore(fromEvents, carrierTeamId, 2) ELSE fromEvents
        weightedScores ==
            IF Truthy(turn.teamId) THEN addScore(withCarrier, turn.teamId, 1) ELSE withCarrier
        ranked == SortByScoreDesc(weightedScores)
    IN  IF Len(ranked) = 0 THEN None
        ELSE IF Len(ranked) > 1 /\ ranked[2].score = ranked[1].score THEN None
        ELSE ranked[1].teamId

\* Mutant: an event nobody owns is dropped.
eventBelongsToTeamOwnedOnly(event, teamId, map) ==
    LET ownerTeamId == MapGet(map, event.playerId)
    IN  IF Truthy(event.playerId) /\ Truthy(ownerTeamId) THEN ownerTeamId = teamId
        ELSE IF Truthy(event.teamId) THEN event.teamId = teamId
        ELSE FALSE

eventBelongsToTeam(event, teamId, map) ==
    LET ownerTeamId == MapGet(map, event.playerId)
    IN  IF Truthy(event.playerId) /\ Truthy(ownerTeamId) THEN ownerTeamId = teamId
        ELSE IF Truthy(event.teamId) THEN event.teamId = teamId
        ELSE TRUE

cloneTurn(turn, turnNumber, scopedTeamId, map) ==
    LET keep == SelectIndices([i \in 1..Len(turn.events) |->
                                  eventBelongsToTeam(turn.events[i], scopedTeamId, map)],
                              1, Len(turn.events))
        scopedEvents == [k \in 1..Len(keep) |-> turn.events[keep[k]]]
        carrierTeamId == IF Truthy(turn.ballCarrierPlayerId)
                         THEN MapGet(map, turn.ballCarrierPlayerId) ELSE None
        scopedCarrier ==
            IF Truthy(turn.ballCarrierPlayerId) /\ Truthy(carrierTeamId)
               /\ carrierTeamId # scopedTeamId
            THEN None ELSE turn.ballCarrierPlayerId
    IN  [turn EXCEPT
            !.teamId = scopedTeamId,
            !.ballCarrierPlayerId = scopedCarrier,
            !.events = scopedEvents,
            !.eventCount = Len(scopedEvents),
            !.turnNumber = turnNumber,
            !.raw = [coachTurnNumber |-> turnNumber,
                     originalTurnNumber |-> turn.turnNumber,
                     originalTeamId |-> turn.teamId] @@ turn.raw]

\* replay.teams.findIndex(team => team.id === teamId), 0-based, -1 when absent
TeamIndex(teams, teamId) ==
    LET hits == {i \in 1..Len(teams) : teams[i].id = teamId}
    IN  IF hits = {} THEN 0 - 1
        ELSE (CHOOSE i \in hits : \A j \in hits : i <= j) - 1

\* Mutant: the alternating fallback whatever the number of teams.
QualifyingTurnsAlternatingAnyTeams(rp, teamId, map) ==
    LET n == Len(rp.turns)
        direct == SelectIndices([i \in 1..n |-> rp.turns[i].teamId = teamId], 1, n)
        byInference ==
            SelectIndices([i \in 1..n |-> inferTurnTeamId(rp.turns[i], map) = teamId], 1, n)
        chosen == IF Len(direct) < MaxScopedTurns /\ Len(byInference) > Len(direct)
                  THEN byInference ELSE direct
        teamIndex == TeamIndex(rp.teams, teamId)
    IN  IF Len(chosen) = 0 /\ teamIndex >= 0
        THEN SelectIndices([i \in 1..n |-> (i - 1) % 2 = teamIndex], 1, n)
        ELSE chosen

\* Lines 186-200: the indices (1-based, ascending) of the parent turns
\* normalizeTeamTurns settles on before it trims them.
QualifyingTurns(rp, teamId, map) ==
    LET n == Len(rp.turns)
        direct == SelectIndices([i \in 1..n |-> rp.turns[i].teamId = teamId], 1, n)
        byInference ==
            SelectIndices([i \in 1..n |-> inferTurnTeamId(rp.turns[i], map) = teamId], 1, n)
        chosen == IF Len(direct) < MaxScopedTurns /\ Len(byInference) > Len(direct)
                  THEN byInference ELSE direct
        teamIndex == TeamIndex(rp.teams, teamId)
    IN  IF Len(chosen) = 0 /\ Len(rp.teams) = 2 /\ teamIndex >= 0
        THEN SelectIndices([i \in 1..n |-> (i - 1) % 2 = teamIndex], 1, n)
        ELSE chosen

\* Mutant: slice(0, 16) off by one.
TrimTurnsOffByOne(indices) ==
    SubSeq(indices, 1, IF Len(indices) < MaxScopedTurns + 1 THEN Len(indices)
                       ELSE MaxScopedTurns + 1)

\* Line 202: turns.slice(0, 16)
TrimTurns(indices) ==
    SubSeq(indices, 1, IF Len(indices) < MaxScopedTurns THEN Len(indices) ELSE MaxScopedTurns)

normalizeTeamTurns(rp, teamId, map) ==
    LET trimmed == TrimTurns(QualifyingTurns(rp, teamId, map))
    IN  [k \in 1..Len(trimmed) |-> cloneTurn(rp.turns[trimmed[k]], k, teamId, map)]

scopeReplayToTeam(rp, teamId) ==
    LET map == buildUniquePlayerTeamMap(rp)
    IN  [teams |-> rp.teams,
         playerNamesByTeamAndId |-> rp.playerNamesByTeamAndId,
         analysisTeamId |-> teamId,
         turns |-> normalizeTeamTurns(rp, teamId, map)]

(***************************************************************************)
(* Object identity in scoping.  JavaScript arrays and objects are          *)
(* references: an object literal and the result of filter, slice or map    *)
(* are fresh objects, while the elements filter keeps are the very         *)
(* elements of the array it read.  A reference names its owner ("parent"   *)
(* for the replay handed in, the team id for what a scoping call creates), *)
(* its kind, and its place.                                                *)
(***************************************************************************)
Ref(owner, kind, turn, index) ==
    [owner |-> owner, kind |-> kind, turn |-> turn, index |-> index]

\* The objects turn i of the replay handed in is made of: the turn object,
\* its events array and the event objects in it.
ParentTurnObjects(rp, i) ==
    [turn |-> Ref("parent", "turn", i, 0),
     events |-> Ref("parent", "events", i, 0),
     elements |-> [j \in 1..Len(rp.turns[i].events) |-> Ref("parent", "event", i, j)]]

\* cloneTurn on parent turn i: a fresh turn object (the literal of line
\* 167), a fresh events array (filter, line 155) holding the parent's event
\* objects that pass the filter.
cloneTurnObjects(rp, i, turnNumber, forTeamId, map) ==
    LET turn == rp.turns[i]
        keep == SelectIndices([j \in 1..Len(turn.events) |->
                                  eventBelongsToTeam(turn.events[j], forTeamId, map)],
                              1, Len(turn.events))
    IN  [turn |-> Ref(forTeamId, "turn", turnNumber, 0),
         events |-> Ref(forTeamId, "events", turnNumber, 0),
         elements |-> [k \in 1..Len(keep) |-> ParentTurnObjects(rp, i).elements[keep[k]]]]

\* The objects of the turns scopeReplayToTeam returns (lines 202-204, 245-252).
scopeReplayToTeamObjects(rp, teamId) ==
    LET map == buildUniquePlayerTeamMap(rp)
        trimmed == TrimTurns(QualifyingTurns(rp, teamId, map))
    IN  [k \in 1..Len(trimmed) |-> cloneTurnObjects(rp, trimmed[k], k, teamId, map)]

(***************************************************************************)
(* SpecScope: attribution and scoping applied to a replay.  The replays    *)
(* are of two kinds: every roster of at most MaxRosterKeys keys under a    *)
(* fixed list of turns, and a fixed roster under turn lists of up to       *)
(* MaxScopeTurns turns.                                                    *)
(***************************************************************************)
MaxRosterKeys == 3
MaxScopeTurns == 17

ThreeTeams == Append(FixtureTeams, [id |-> "2", name |-> "Team Two"])

RosterKeys ==
    { <<"0", ":", "9">>, <<"1", ":", "9">>, <<"2", ":", "9">>,
      <<"0", ":", "7">>, <<"1", ":", "7">>,
      <<":", "9">>, <<"0", ":">>, <<"9">> }

\* Object.keys of a roster: distinct keys in insertion order
Rosters ==
    {q \in SeqsUpTo(RosterKeys, MaxRosterKeys) :
        \A i, j \in 1..Len(q) : i # j => q[i] # q[j]}

PlayerEv(type, playerId, teamId) ==
    [EmptyEvent EXCEPT !.type = type, !.sourceTag = type,
                       !.playerId = playerId, !.teamId = teamId]

TaggedShape(teamId, carrier, events) ==
    [teamId |-> teamId, ballCarrierPlayerId |-> carrier, events |-> events]

TaggedTurn(turnNumber, shape) ==
    [buildTurn(turnNumber, None) EXCEPT
        !.teamId = shape.teamId,
        !.ballCarrierPlayerId = shape.ballCarrierPlayerId,
        !.events = shape.events,
        !.eventCount = Len(shape.events)]

AttributionShapes ==
    << TaggedShape(None, None, <<PlayerEv("dodge", "9", None)>>),
       TaggedShape(None, "9", <<>>),
       TaggedShape(None, None, <<PlayerEv("dodge", "7", None), PlayerEv("block", "9", None),
                                 PlayerEv("block", "9", None)>>),
       TaggedShape(None, None, <<PlayerEv("block", "9", None), PlayerEv("block", "9", None),
                                 PlayerEv("dodge", "7", None)>>),
       TaggedShape("0", None, <<PlayerEv("ball_state", "7", None)>>),
       TaggedShape(None, "7", <<PlayerEv("block", "9", None)>>),
       TaggedShape("1", "7", <<PlayerEv("dodge", "9", None), PlayerEv("reroll", "7", None)>>),
       TaggedShape(None, None, <<>>),
       TaggedShape(None, None, <<PlayerEv("turnover", None, None),
                                 PlayerEv("casualty", "9", None)>>),
       TaggedShape("2", "9", <<PlayerEv("blitz", "7", None), PlayerEv("block", "9", None)>>),
       TaggedShape("2", None, <<>>) >>

ScopeRoster ==
    << <<"0", ":", "7">>, <<"1", ":", "9">>, <<"0", ":", "3">>, <<"1", ":", "3">> >>

ScopeShapes ==
    { \* tagged for team 0 and played by team 0, with a block by the other side
      TaggedShape("0", "7", <<PlayerEv("dodge", "7", None), PlayerEv("block", "9", None)>>),
      \* untagged, carried and played by team 1
      TaggedShape(None, "9", <<PlayerEv("block", "9", None)>>),
      \* tagged for team 0 but played by team 1
      TaggedShape("0", None, <<PlayerEv("dodge", "9", None), PlayerEv("dodge", "9", None)>>),
      \* nothing to attribute
      TaggedShape(None, None, <<>>),
      \* tagged for team 1, a player listed under both teams, an event with a team tag only
      TaggedShape("1", "3", <<PlayerEv("ball_state", "3", None),
                              PlayerEv("casualty", None, "1")>>) }

ScopeTeamIds == {"0", "1", "2", "5"}

ScopeInit ==
    /\ pc = "build_map"
    /\ playerToTeam = None
    /\ inferred = None
    /\ analysisTeamId = None
    /\ scopedReplay = None
    /\ scopedObjects = None
    /\ playableTeams = None
    /\ \/ \E roster \in Rosters :
             replay = [teams |-> ThreeTeams,
                       playerNamesByTeamAndId |-> roster,
                       turns |-> [i \in 1..Len(AttributionShapes) |->
                                     TaggedTurn(i, AttributionShapes[i])]]
       \/ \E teams \in {FixtureTeams, ThreeTeams},
             head \in SeqsUpTo(ScopeShapes, MaxVariedTurns), filler \in ScopeShapes,
             n \in 0..MaxScopeTurns :
             /\ n >= Len(head)
             /\ replay = [teams |-> teams,
                          playerNamesByTeamAndId |-> ScopeRoster,
                          turns |-> [i \in 1..n |->
                                        TaggedTurn(i, IF i <= Len(head) THEN head[i]
                                                      ELSE filler)]]

BuildUniquePlayerTeamMap ==
    /\ pc = "build_map"
    /\ playerToTeam' = buildUniquePlayerTeamMap(replay)
    /\ pc' = "infer"
    /\ UNCHANGED <<replay, inferred, analysisTeamId, scopedReplay, scopedObjects,
                   playableTeams, notScopeVars>>

InferTurnTeamId ==
    /\ pc = "infer"
    /\ inferred' = [i \in 1..Len(replay.turns) |->
                       inferTurnTeamId(replay.turns[i], playerToTeam)]
    /\ pc' = "scope"
    /\ UNCHANGED <<replay, playerToTeam, analysisTeamId, scopedReplay, scopedObjects,
                   playableTeams, notScopeVars>>

ScopeReplayToTeam(teamId) ==
    /\ pc = "scope"
    /\ analysisTeamId' = teamId
    /\ scopedReplay' = scopeReplayToTeam(replay, teamId)
    /\ scopedObjects' = scopeReplayToTeamObjects(replay, teamId)
    /\ pc' = "scoped"
    /\ UNCHANGED <<replay, playerToTeam, inferred, playableTeams, notScopeVars>>

NextScope ==
    \/ BuildUniquePlayerTeamMap
    \/ InferTurnTeamId
    \/ \E teamId \in ScopeTeamIds : ScopeReplayToTeam(teamId)

(***************************************************************************)
(* Input decoding (decodeReplay.ts).  A text is the sequence of its        *)
(* characters.  What Buffer.from and the three zlib decoders make of the   *)
(* input is a function of the input, so it is carried with the input: the  *)
(* byte count of the base64 decoding and, per decoder, the text it yields  *)
(* or that it throws.                                                      *)
(***************************************************************************)
RECURSIVE TrimStart(_)
TrimStart(text) ==
    IF text # <<>> /\ Head(text) = " " THEN TrimStart(Tail(text)) ELSE text

RECURSIVE TrimEnd(_)
TrimEnd(text) ==
    IF text # <<>> /\ text[Len(text)] = " "
    THEN TrimEnd(SubSeq(text, 1, Len(text) - 1)) ELSE text

\* String.prototype.trim
TrimText(text) == TrimEnd(TrimStart(text))

StartsWith(text, prefix) ==
    Len(text) >= Len(prefix) /\ SubSeq(text, 1, Len(prefix)) = prefix

\* Mutant: the pattern without its last alternative.
XmlStartWithoutBareBracket(text) ==
    \/ StartsWith(text, <<"<", "?", "x", "m", "l">>)
    \/ StartsWith(text, <<"<", "R", "e", "p", "l", "a", "y">>)
    \/ StartsWith(text, <<"<", "M", "a", "t", "c", "h", "R", "e", "p", "l", "a", "y">>)

\* /^<\?xml|^<Replay|^<MatchReplay|^</ .test(text)
XML_START_PATTERN(text) ==
    \/ StartsWith(text, <<"<", "?", "x", "m", "l">>)
    \/ StartsWith(text, <<"<", "R", "e", "p", "l", "a", "y">>)
    \/ StartsWith(text, <<"<", "M", "a", "t", "c", "h", "R", "e", "p", "l", "a", "y">>)
    \/ StartsWith(text, <<"<">>)

Threw == [threw |-> TRUE, text |-> <<>>]
Yields(text) == [threw |-> FALSE, text |-> text]

RECURSIVE FirstXmlFrom(_, _)
\* Lines 31-42: the loop over [inflateSync, inflateRawSync, gunzipSync] from
\* decoder i on; Threw stands for the null the function returns.
FirstXmlFrom(decoders, i) ==
    IF i > Len(decoders) THEN Threw
    ELSE IF ~decoders[i].threw /\ XML_START_PATTERN(TrimStart(decoders[i].text))
         THEN decoders[i]
         ELSE FirstXmlFrom(decoders, i + 1)

\* null is Threw
decodeCompressedBase64(in) ==
    IF in.binaryLength = 0 THEN Threw
    ELSE FirstXmlFrom(<<in.inflateSync, in.inflateRawSync, in.gunzipSync>>, 1)

Failure(message) == [ok |-> FALSE, error |-> message, xml |-> <<>>, format |-> None]
Success(xml, format) == [ok |-> TRUE, error |-> None, xml |-> xml, format |-> format]

\* options.maxDecodedChars && length > options.maxDecodedChars
CapExceeded(maxDecodedChars, length) ==
    /\ maxDecodedChars # NoNumber
    /\ maxDecodedChars # Num(0)
    /\ \E cap \in maxDecodedChars : length > cap

decodeReplayInput(in, opts) ==
    LET raw == TrimText(in.text)
    IN  IF Len(raw) = 0 THEN Failure("Replay input is empty.")
        ELSE IF XML_START_PATTERN(raw)
        THEN IF CapExceeded(opts.maxDecodedChars, Len(raw))
             THEN Failure("Replay XML is too large after decode.")
             ELSE Success(raw, "xml")
        ELSE LET decodedXml == decodeCompressedBase64(in)
             IN  IF decodedXml.threw \/ decodedXml.text = <<>>
                 THEN Failure("Replay input is not valid XML or supported BB3 .bbr content.")
                 ELSE IF CapExceeded(opts.maxDecodedChars, Len(decodedXml.text))
                 THEN Failure("Replay XML is too large after decode.")
                 ELSE Success(decodedXml.text, "bbr")

(***************************************************************************)
(* SpecDecode: decodeReplayInput applied to an input.  The inputs are of   *)
(* two kinds: every text of at most MaxTextLen characters that no decoder  *)
(* accepts, and a base64 text or a padded XML text with every combination  *)
(* of decoder outcomes over one payload of at most MaxTextLen characters.  *)
(***************************************************************************)
MaxTextLen == 3

Texts == SeqsUpTo({" ", "<", "a"}, MaxTextLen)

Caps == {NoNumber} \cup {Num(n) : n \in 0..MaxTextLen}

DecodeInit ==
    /\ pc = "decode"
    /\ decoded = None
    /\ options \in [maxDecodedChars : Caps]
    /\ \/ \E text \in Texts :
             input = [text |-> text, binaryLength |-> 0, inflateSync |-> Threw,
                      inflateRawSync |-> Threw, gunzipSync |-> Threw]
       \/ \E text \in {<<"a", "a", "a", "a">>, <<" ", "a", "a", "a", "a">>,
                         <<" ", "<", "a", " ">>},
             binaryLength \in {0, 3}, payload \in Texts :
             \E outcomes \in [1..3 -> {Threw, Yields(<<"a">>), Yields(payload)}] :
             input = [text |-> text, binaryLength |-> binaryLength,
                      inflateSync |-> outcomes[1], inflateRawSync |-> outcomes[2],
                      gunzipSync |-> outcomes[3]]

DecodeReplayInput ==
    /\ pc = "decode"
    /\ decoded' = decodeReplayInput(input, options)
    /\ pc' = "decoded"
    /\ UNCHANGED <<input, options, notDecodeVars>>

NextDecode == DecodeReplayInput

(***************************************************************************)
(* Choice of the two reported teams (analyzeReplay.ts, lines 49-51 and     *)
(* 207-242).  A team name is the sequence of its characters.               *)
(***************************************************************************)
LowerChar(c) ==
    CASE c = "T" -> "t" [] c = "E" -> "e" [] c = "A" -> "a" [] c = "M" -> "m"
      [] c = "O" -> "o" [] OTHER -> c

IsDigit(c) == c \in {"0", "1", "2", "3", "4", "5", "6", "7", "8", "9"}

\* Mutant: the digits of the pattern not asked for.
isGenericTeamNameByPrefix(name) ==
    LET trimmed == TrimText(name)
    IN  /\ Len(trimmed) > 5
        /\ [i \in 1..5 |-> LowerChar(trimmed[i])] = <<"t", "e", "a", "m", " ">>

\* /^Team \d+$/i.test(name.trim())
isGenericTeamName(name) ==
    LET trimmed == TrimText(name)
    IN  /\ Len(trimmed) > 5
        /\ [i \in 1..5 |-> LowerChar(trimmed[i])] = <<"t", "e", "a", "m", " ">>
        /\ \A i \in 6..Len(trimmed) : IsDigit(trimmed[i])

\* Lines 208-216: usage.get(teamId) ?? 0 after the loop over the turns
Usage(rp, teamId) ==
    Cardinality({i \in 1..Len(rp.turns) :
                    Truthy(rp.turns[i].teamId) /\ rp.turns[i].teamId = teamId})

\* Array.prototype.sort((a, b) => b.usage - a.usage): stable, descending by usage
SortByUsageDesc(entries) ==
    LET before(i, j) ==
            \/ entries[i].usage > entries[j].usage
            \/ (entries[i].usage = entries[j].usage /\ i < j)
        rank(i) == 1 + Cardinality({j \in 1..Len(entries) : j # i /\ before(j, i)})
    IN  [k \in 1..Len(entries) |->
            entries[CHOOSE i \in 1..Len(entries) : rank(i) = k]]

\* array.slice(0, 2)
FirstTwo(list) == SubSeq(list, 1, IF Len(list) < 2 THEN Len(list) ELSE 2)

\* Mutant: the ranking by usage left out; the first two listed teams are returned.
selectPlayableTeamsInListOrder(rp) == FirstTwo(rp.teams)

selectPlayableTeams(rp) ==
    LET n == Len(rp.teams)
        entries == [i \in 1..n |-> [team |-> rp.teams[i], usage |-> Usage(rp, rp.teams[i].id)]]
        used == SelectIndices([i \in 1..n |-> entries[i].usage > 0], 1, n)
        sorted == SortByUsageDesc([k \in 1..Len(used) |-> entries[used[k]]])
        byUsage == [k \in 1..Len(sorted) |-> sorted[k].team]
        named == SelectIndices([i \in 1..n |-> ~isGenericTeamName(rp.teams[i].name)], 1, n)
        namedTeams == [k \in 1..Len(named) |-> rp.teams[named[k]]]
        others == {i \in 1..n : Len(byUsage) = 1 /\ rp.teams[i].id # byUsage[1].id}
    IN  IF Len(byUsage) >= 2 THEN FirstTwo(byUsage)
        ELSE IF Len(namedTeams) >= 2 THEN FirstTwo(namedTeams)
        ELSE IF Len(byUsage) = 1
        THEN IF others # {}
             THEN <<byUsage[1], rp.teams[CHOOSE i \in others : \A j \in others : i <= j]>>
             ELSE byUsage
        ELSE FirstTwo(rp.teams)

(***************************************************************************)
(* SpecTeams: selectPlayableTeams applied to a replay, over every list of  *)
(* at most MaxTeams distinct teams of a pool and every list of at most     *)
(* MaxTaggedTurns turn tags.                                               *)
(***************************************************************************)
MaxTeams == 3
MaxTaggedTurns == 4

TeamPool ==
    { [id |-> "0", name |-> <<"T", "e", "a", "m", " ", "1">>],
      [id |-> "1", name |-> <<"O", "r", "c", "s">>],
      [id |-> "2", name |-> <<" ", "t", "e", "a", "m", " ", "2", "2", " ">>],
      [id |-> "3", name |-> <<"T", "e", "a", "m", " ", "A">>] }

TeamLists ==
    {q \in SeqsUpTo(TeamPool, MaxTeams) : \A i, j \in 1..Len(q) : i # j => q[i] # q[j]}

TurnTags == {None, "0", "1", "2"}

TeamsInit ==
    /\ pc = "select"
    /\ playerToTeam = None
    /\ inferred = None
    /\ analysisTeamId = None
    /\ scopedReplay = None
    /\ scopedObjects = None
    /\ playableTeams = None
    /\ \E teams \in TeamLists, tags \in SeqsUpTo(TurnTags, MaxTaggedTurns) :
          replay = [teams |-> teams,
                    playerNamesByTeamAndId |-> <<>>,
                    turns |-> [i \in 1..Len(tags) |->
                                  TaggedTurn(i, TaggedShape(tags[i], None, <<>>))]]

SelectPlayableTeams ==
    /\ pc = "select"
    /\ playableTeams' = selectPlayableTeams(replay)
    /\ pc' = "selected"
    /\ UNCHANGED <<replay, playerToTeam, inferred, analysisTeamId, scopedReplay,
                   scopedObjects, notScopeVars>>

NextTeams == SelectPlayableTeams

(***************************************************************************)
(* Components at rest.                                                     *)
(***************************************************************************)
RulesRest == context = None /\ findings = None /\ advice = None
ScopeRest ==
    /\ playerToTeam = None
    /\ inferred = None
    /\ analysisTeamId = None
    /\ scopedReplay = None
    /\ scopedObjects = None
    /\ playableTeams = None
DecodeRest == input = None /\ options = None /\ decoded = None

(***************************************************************************)
(* Spec: the parser scanning one XML text, marker by marker.               *)
(***************************************************************************)
Init ==
    /\ pc = "scan"
    /\ ParserInit
    /\ replay = None
    /\ RulesRest
    /\ ScopeRest
    /\ DecodeRest

\* buildTeamReport: the parsed turns, as the replay of the two fixture teams,
\* scoped to one of them.
ScopeParsedTurns(teamId) ==
    /\ pc = "returned"
    /\ pc' = "scoped"
    /\ replay' = [teams |-> FixtureTeams,
                  playerNamesByTeamAndId |-> FixtureRoster,
                  turns |-> parsed]
    /\ analysisTeamId' = teamId
    /\ scopedReplay' = scopeReplayToTeam(replay', teamId)
    /\ UNCHANGED <<parserVars, rulesVars, playerToTeam, inferred, scopedObjects,
                   playableTeams, decodeVars>>

Next ==
    \/ \E g \in GamerBodies : ActiveGamerChanged(g)
    \/ \E b \in CarrierBodies : Carrier(b)
    \/ \E blk \in Blocks : ExecuteSequence(blk)
    \/ \E m \in EndTurnMarkers : EndTurn(m)
    \/ EndOfScan
    \/ \E team \in Range(FixtureTeams) : ScopeParsedTurns(team.id)

Spec == Init /\ [][Next]_vars

InitRules ==
    /\ RulesInit
    /\ ParserRest
    /\ ScopeRest
    /\ DecodeRest

SpecRules == InitRules /\ [][NextRules]_vars

InitScope ==
    /\ ScopeInit
    /\ ParserRest
    /\ RulesRest
    /\ DecodeRest

SpecScope == InitScope /\ [][NextScope]_vars

InitTeams ==
    /\ TeamsInit
    /\ ParserRest
    /\ RulesRest
    /\ DecodeRest

SpecTeams == InitTeams /\ [][NextTeams]_vars

InitAdvice ==
    /\ AdviceInit
    /\ replay = None
    /\ ParserRest
    /\ ScopeRest
    /\ DecodeRest

SpecAdvice == InitAdvice /\ [][NextAdvice]_vars

InitDecode ==
    /\ DecodeInit
    /\ ParserRest
    /\ replay = None
    /\ RulesRest
    /\ ScopeRest

SpecDecode == InitDecode /\ [][NextDecode]_vars

(***************************************************************************)
(* Claims about the parser (checked under Spec).                           *)
(***************************************************************************)
EndTurnIndices == {i \in 1..Len(scanned) : scanned[i].tag = "EventEndTurn"}

\* The 1-based turn the i-th scanned marker falls in.
TurnOfMarker(i) == 1 + Cardinality({k \in EndTurnIndices : k < i})

\* The k-th end-turn marker of the scan.
NthEndTurn(k) ==
    scanned[CHOOSE i \in EndTurnIndices : Cardinality({j \in EndTurnIndices : j <= i}) = k].body

\* Whether the i-th scanned marker adds an event or a carrier to its turn.
MarkerAccumulates(i) ==
    \/ /\ scanned[i].tag = "Carrier"
       /\ Trim(scanned[i].body) \notin {"", "-1"}
    \/ /\ scanned[i].tag = "EventExecuteSequence"
       /\ collectSequenceEvents(scanned[i].body) # <<>>

AccumulatedAfterLastEndTurn ==
    \E i \in 1..Len(scanned) :
        /\ \A k \in EndTurnIndices : k < i
        /\ MarkerAccumulates(i)

\* C1: the returned turns are one finalized turn per end-turn marker, numbered
\* 1..N in marker order, followed by a turn N+1 iff events or a carrier were
\* accumulated after the last end-turn marker; turn numbers are dense from 1.
C1_DenseTurnNumbers ==
    pc = "returned" =>
        LET n == Cardinality(EndTurnIndices)
        IN  /\ Len(parsed) = n + (IF AccumulatedAfterLastEndTurn THEN 1 ELSE 0)
            /\ \A i \in 1..Len(parsed) : parsed[i].turnNumber = i
            /\ \A k \in 1..n :
                 /\ parsed[k].endTurnReason = toNumber(NthEndTurn(k).reason)
                 /\ parsed[k].finishingTurnType = toNumber(NthEndTurn(k).finishingTurnType)

C1_Witness ==
    /\ pc = "returned"
    /\ Cardinality(EndTurnIndices) = 2
    /\ Len(parsed) = 3
    /\ parsed[3].turnNumber = 3

\* C2: the turn an end-turn marker closes has its turnover flag set and a
\* turnover event appended iff the marker carries a reason code other than 1.
C2_TurnoverIffReasonNotOne ==
    [][(Len(scanned') = Len(scanned) + 1 /\ scanned'[Len(scanned')].tag = "EventEndTurn") =>
            LET m == scanned'[Len(scanned')].body
                closed == turns'[Len(turns')]
                expected == m.reason # None /\ m.reason # "1"
            IN  /\ Len(turns') = Len(turns) + 1
                /\ closed.possibleTurnover = expected
                /\ IF expected
                   THEN /\ Len(closed.events) = Len(currentTurn.events) + 1
                        /\ SubSeq(closed.events, 1, Len(currentTurn.events)) = currentTurn.events
                        /\ closed.events[Len(closed.events)].type = "turnover"
                   ELSE closed.events = currentTurn.events]_vars

C2_Witness ==
    /\ Len(turns) >= 2
    /\ turns[1].endTurnReason = Num(2)
    /\ turns[1].possibleTurnover
    /\ turns[1].events[Len(turns[1].events)].type = "turnover"
    /\ turns[2].endTurnReason = Num(1)
    /\ ~turns[2].possibleTurnover

\* C8: in the returned turns, a turn in which no ball-carrier marker occurs
\* reports the ball carrier of the turn before it (the carrier persists from
\* turn to turn until a marker changes or clears it).
C8_CarrierPersistsAcrossTurns ==
    pc = "returned" =>
        \A j \in 2..Len(parsed) :
            (\A i \in 1..Len(scanned) :
                 scanned[i].tag = "Carrier" => TurnOfMarker(i) # j)
            => parsed[j].ballCarrierPlayerId = parsed[j - 1].ballCarrierPlayerId

(***************************************************************************)
(* Claims about the rule engine (checked under SpecRules).                 *)
(***************************************************************************)
\* What a rule pushed before any cap was applied.
PushedBy(rule) ==
    CASE rule = "turnover_cause" -> TurnoverCausePushed(replay, context)
      [] rule = "action_ordering" -> ActionOrderingPushed(replay, context)
      [] rule = "reroll_timing" -> RerollTimingPushed(replay, context)
      [] rule = "ball_safety" -> BallSafetyPushed(replay, context)
      [] rule = "cage_safety" -> CageSafetyPushed(replay, context)
      [] rule = "screen_lanes" -> ScreenLanesPushed(replay, context)
      [] rule = "blitz_value" -> BlitzValuePushed(replay, context)
      [] rule = "foul_timing" -> FoulTimingPushed(replay, context)

FirstN(list, n) == SubSeq(list, 1, IF Len(list) < n THEN Len(list) ELSE n)

\* C3: every one of the eight evaluators returns at most 6 findings, namely
\* those of the first 6 triggering turns in their original order.
C3_EveryRuleCapsAtSix ==
    \A rule \in DOMAIN findings :
        /\ Len(findings[rule]) <= MaxByCategory
        /\ findings[rule] = FirstN(PushedBy(rule), MaxByCategory)

\* Turns (by index) that have a ball carrier.
CarrierTurns(ts) == {i \in 1..Len(ts) : Truthy(ts[i].ballCarrierPlayerId)}

\* Turns whose carrier differs from that of the preceding carrier-bearing turn.
CarrierChanges(ts) ==
    {i \in CarrierTurns(ts) :
        \E j \in CarrierTurns(ts) :
            /\ j < i
            /\ \A k \in CarrierTurns(ts) : k < i => k <= j
            /\ ts[j].ballCarrierPlayerId # ts[i].ballCarrierPlayerId}

\* C4: evaluateBallSafety emits exactly one finding for each turn whose
\* nonempty carrier differs from the carrier of the preceding carrier-bearing
\* turn, in turn order, and nothing for any other turn.
C4_BallSafetyOncePerCarrierChange ==
    "ball_safety" \in DOMAIN findings =>
        LET fs == findings["ball_safety"]
            changes == CarrierChanges(replay.turns)
        IN  /\ Len(fs) = Cardinality(changes)
            /\ \A k \in 1..Len(fs) :
                 /\ \E i \in changes : fs[k].turnNumber = replay.turns[i].turnNumber
                 /\ fs[k].category = "ball_safety"
                 /\ k > 1 => fs[k - 1].turnNumber < fs[k].turnNumber

C4_Witness ==
    /\ "ball_safety" \in DOMAIN findings
    /\ Len(replay.turns) >= 4
    /\ replay.turns[1].ballCarrierPlayerId = "7"
    /\ replay.turns[2].ballCarrierPlayerId = None
    /\ replay.turns[3].ballCarrierPlayerId = "9"
    /\ replay.turns[4].ballCarrierPlayerId = "9"
    /\ Len(findings["ball_safety"]) = 1
    /\ findings["ball_safety"][1].turnNumber = 3

\* C9: when the turn numbers are pairwise distinct, the findings of all the
\* evaluators run have pairwise distinct ids.
C9_FindingIdsUnique ==
    (\A i, j \in 1..Len(replay.turns) :
         i # j => replay.turns[i].turnNumber # replay.turns[j].turnNumber)
    => \A r1, r2 \in DOMAIN findings :
         \A i \in 1..Len(findings[r1]), j \in 1..Len(findings[r2]) :
             (r1 # r2 \/ i # j) => findings[r1][i].id # findings[r2][j].id

C9_Witness ==
    /\ pc = "analyzed"
    /\ DOMAIN findings = Rules
    /\ Len(findings["turnover_cause"]) >= 2
    /\ Len(findings["foul_timing"]) >= 2
    /\ findings["turnover_cause"][1].turnNumber = findings["foul_timing"][1].turnNumber
    /\ findings["turnover_cause"][1].id = "turnover-cause-turn-1"

(***************************************************************************)
(* Claims about attribution and scoping (checked under SpecScope).         *)
(***************************************************************************)
\* The (team, player) pairs the roster lists.
RosterPairs(rp) ==
    {SplitKey(rp.playerNamesByTeamAndId[k]) :
        k \in {j \in 1..Len(rp.playerNamesByTeamAndId) :
                 SplitKey(rp.playerNamesByTeamAndId[j]) # Skipped}}

\* The teams the roster lists a player id under.
TeamsListing(rp, playerId) ==
    {pair.teamId : pair \in {x \in RosterPairs(rp) : x.playerId = playerId}}

\* Player ids listed under two or more different teams.
ConflictingPlayers(rp) ==
    LET pairs == RosterPairs(rp)
    IN  {x.playerId : x \in {y \in pairs : \E z \in pairs :
                                  z.playerId = y.playerId /\ z.teamId # y.teamId}}

\* The player ids a turn refers to, by its events and its carrier.
ReferencedPlayers(turn) ==
    {turn.events[i].playerId : i \in {j \in 1..Len(turn.events) : Truthy(turn.events[j].playerId)}}
    \cup (IF Truthy(turn.ballCarrierPlayerId) THEN {turn.ballCarrierPlayerId} ELSE {})

\* C5: a player id listed under two or more teams is absent from the map
\* buildUniquePlayerTeamMap returns, whatever the key order and the number
\* of teams, and inferTurnTeamId is undefined for an untagged turn that
\* refers to such ids only.
C5_ConflictingPlayersExcluded ==
    LET conflicting == ConflictingPlayers(replay)
    IN  /\ pc \in {"infer", "scope", "scoped"} =>
              \A playerId \in conflicting : playerId \notin DOMAIN playerToTeam
        /\ pc \in {"scope", "scoped"} =>
              \A i \in 1..Len(replay.turns) :
                  (/\ ~Truthy(replay.turns[i].teamId)
                   /\ ReferencedPlayers(replay.turns[i]) \subseteq conflicting)
                  => inferred[i] = None

\* A player listed under three teams, and an untagged turn that refers to that player only.
C5_Witness ==
    /\ pc = "scope"
    /\ \E i \in 1..Len(replay.turns) :
          /\ ~Truthy(replay.turns[i].teamId)
          /\ ReferencedPlayers(replay.turns[i]) # {}
          /\ \A playerId \in ReferencedPlayers(replay.turns[i]) :
                Cardinality(TeamsListing(replay, playerId)) = 3
          /\ inferred[i] = None

\* The weighted score of a team in a turn: 4 per dodge, blitz, foul or
\* reroll event of a player it owns, 2 per block, 1 per other event, 2 for
\* owning the carrier and 1 for the turn's own tag.
OwnedEvents(turn, teamId, weight) ==
    {i \in 1..Len(turn.events) :
        /\ Truthy(turn.events[i].playerId)
        /\ turn.events[i].playerId \in DOMAIN playerToTeam
        /\ playerToTeam[turn.events[i].playerId] = teamId
        /\ weight = (IF turn.events[i].type \in {"dodge", "blitz", "foul", "reroll"} THEN 4
                     ELSE IF turn.events[i].type = "block" THEN 2 ELSE 1)}

TeamScore(turn, teamId) ==
    4 * Cardinality(OwnedEvents(turn, teamId, 4))
    + 2 * Cardinality(OwnedEvents(turn, teamId, 2))
    + Cardinality(OwnedEvents(turn, teamId, 1))
    + (IF /\ Truthy(turn.ballCarrierPlayerId)
          /\ turn.ballCarrierPlayerId \in DOMAIN playerToTeam
          /\ playerToTeam[turn.ballCarrierPlayerId] = teamId THEN 2 ELSE 0)
    + (IF turn.teamId = teamId THEN 1 ELSE 0)

ScoringTeams(turn) ==
    {playerToTeam[p] : p \in DOMAIN playerToTeam}
    \cup (IF Truthy(turn.teamId) THEN {turn.teamId} ELSE {})

\* C6: inferTurnTeamId returns the team whose weighted score is strictly
\* the highest, and undefined when no team scores or the highest score is
\* shared.
C6_StrictlyHighestScoreOwnsTurn ==
    pc \in {"scope", "scoped"} =>
        \A i \in 1..Len(replay.turns) :
            LET turn == replay.turns[i]
                leaders == {a \in ScoringTeams(turn) :
                               /\ TeamScore(turn, a) > 0
                               /\ \A b \in ScoringTeams(turn) \ {a} :
                                     TeamScore(turn, a) > TeamScore(turn, b)}
            IN  IF leaders = {} THEN inferred[i] = None
                ELSE inferred[i] \in leaders

\* Three teams score in a turn and two of them share the highest score.
C6_Witness ==
    /\ pc = "scope"
    /\ \E i \in 1..Len(replay.turns) :
          LET turn == replay.turns[i]
              scoring == {a \in ScoringTeams(turn) : TeamScore(turn, a) > 0}
          IN  /\ Cardinality(scoring) = 3
              /\ \E a, b \in scoring :
                    /\ a # b
                    /\ TeamScore(turn, a) = TeamScore(turn, b)
                    /\ \A c \in scoring : TeamScore(turn, c) <= TeamScore(turn, a)
              /\ inferred[i] = None

\* C7: scopeReplayToTeam returns k <= 16 turns numbered 1..k, and they are
\* the first k qualifying turns of the parent replay in the parent's order.
C7_ScopedTurnsAreFirstSixteenRenumbered ==
    pc = "scoped" =>
        LET scopedTurns == scopedReplay.turns
            qualifying == QualifyingTurns(replay, analysisTeamId, playerToTeam)
            k == Len(scopedTurns)
        IN  /\ k <= 16
            /\ k = (IF Len(qualifying) < 16 THEN Len(qualifying) ELSE 16)
            /\ \A i \in 1..k :
                  /\ scopedTurns[i].turnNumber = i
                  /\ scopedTurns[i].raw.originalTurnNumber
                        = replay.turns[qualifying[i]].turnNumber

\* Seventeen parent turns qualify and sixteen are returned.
C7_Witness ==
    /\ pc = "scoped"
    /\ Len(QualifyingTurns(replay, analysisTeamId, playerToTeam)) = 17
    /\ Len(scopedReplay.turns) = 16
    /\ scopedReplay.turns[16].raw.originalTurnNumber = 16

(***************************************************************************)
(* Claims about input decoding (checked under SpecDecode).                 *)
(***************************************************************************)
\* The text decoding arrives at before the cap is looked at: the trimmed
\* input on the literal path, the first decoder output that starts as XML
\* on the compressed path; <<>> when there is none.
DecodedText ==
    LET raw == TrimText(input.text)
        xmlOutputs == {i \in 1..3 :
                          LET out == <<input.inflateSync, input.inflateRawSync,
                                       input.gunzipSync>>[i]
                          IN  /\ ~out.threw
                              /\ TrimStart(out.text) # <<>>
                              /\ TrimStart(out.text)[1] = "<"}
    IN  IF raw # <<>> /\ raw[1] = "<" THEN raw
        ELSE IF raw = <<>> \/ input.binaryLength = 0 \/ xmlOutputs = {} THEN <<>>
        ELSE <<input.inflateSync, input.inflateRawSync, input.gunzipSync>>[
                 CHOOSE i \in xmlOutputs : \A j \in xmlOutputs : i <= j].text

\* C10: with a cap given, a decoded text longer than the cap makes
\* decodeReplayInput fail with the too-large validation error, on the
\* literal path and on the compressed path alike, and a decoded text no
\* longer than the cap is never refused for its size.
C10_CapAlwaysEnforced ==
    (pc = "decoded" /\ options.maxDecodedChars # NoNumber /\ DecodedText # <<>>) =>
        \A cap \in options.maxDecodedChars :
            /\ Len(DecodedText) > cap =>
                  ~decoded.ok /\ decoded.error = "Replay XML is too large after decode."
            /\ Len(DecodedText) <= cap =>
                  decoded.ok /\ decoded.xml = DecodedText

\* C11 (as stated): a result of format "bbr" carries the output of the
\* first decoder, in the order inflate, raw inflate, gunzip, that yields
\* text starting as XML, and the returned text itself begins with a
\* recognized XML marker.
C11_BbrTextBeginsWithXmlMarker ==
    (pc = "decoded" /\ decoded.ok /\ decoded.format = "bbr") =>
        /\ decoded.xml = DecodedText
        /\ decoded.xml[1] = "<"

\* The trimmed input starts with "<".
LiteralInput == TrimText(input.text) # <<>> /\ TrimText(input.text)[1] = "<"

\* C12 (as stated): a trimmed input that starts with "<" is returned as
\* format "xml" with the trimmed input as its text, whatever the decoders
\* would make of it.
C12_LiteralXmlAlwaysReturned ==
    (pc = "decoded" /\ LiteralInput) =>
        /\ decoded.ok
        /\ decoded.format = "xml"
        /\ decoded.xml = TrimText(input.text)

\* C12 (amended): a trimmed input that starts with "<" is either refused
\* as too large, which happens only when a cap is given and the trimmed
\* length exceeds it, or returned as format "xml" with the trimmed input as
\* its text; the decoders' outcomes play no part.
C12_LiteralXmlReturnedUnlessTooLarge ==
    (pc = "decoded" /\ LiteralInput) =>
        IF decoded.ok
        THEN decoded.format = "xml" /\ decoded.xml = TrimText(input.text)
        ELSE /\ decoded.error = "Replay XML is too large after decode."
             /\ \E cap \in options.maxDecodedChars : Len(TrimText(input.text)) > cap

\* A padded XML text whose base64 reading would inflate to another XML
\* text is returned trimmed, as format "xml".
C12_Witness ==
    /\ pc = "decoded"
    /\ LiteralInput
    /\ Len(TrimText(input.text)) < Len(input.text)
    /\ input.binaryLength > 0
    /\ ~input.inflateSync.threw
    /\ XML_START_PATTERN(input.inflateSync.text)
    /\ input.inflateSync.text # TrimText(input.text)
    /\ decoded.ok
    /\ decoded.format = "xml"

\* The events the latest step appended to the current turn.
AppendedEvents ==
    SubSeq(currentTurn'.events, Len(currentTurn.events) + 1, Len(currentTurn'.events))

\* C13 (as stated): a block whose step has step-type code 1 and which holds
\* one ResultRoll result yields exactly one dodge event, carrying the step's
\* player id; a ResultRoll under another step-type code yields no dodge.
C13_DodgeCarriesStepPlayer ==
    [][(Len(scanned') = Len(scanned) + 1
        /\ scanned'[Len(scanned')].tag = "EventExecuteSequence") =>
            LET block == scanned'[Len(scanned')].body
                rolls == {i \in 1..Len(block.results) : block.results[i].root = "ResultRoll"}
                dodges == {i \in 1..Len(AppendedEvents) : AppendedEvents[i].type = "dodge"}
            IN  /\ (block.step.StepType = "1" /\ Cardinality(rolls) = 1) =>
                      /\ Cardinality(dodges) = 1
                      /\ \A i \in dodges : AppendedEvents[i].playerId = block.step.PlayerId
                /\ block.step.StepType # "1" => dodges = {}]_vars

\* C13 (amended): as above, with the dodge event carrying the result's own
\* PlayerId, else its PushedPlayerId, else the step's player id.
C13_DodgeCarriesOwnOrStepPlayer ==
    [][(Len(scanned') = Len(scanned) + 1
        /\ scanned'[Len(scanned')].tag = "EventExecuteSequence") =>
            LET block == scanned'[Len(scanned')].body
                rolls == {i \in 1..Len(block.results) : block.results[i].root = "ResultRoll"}
                dodges == {i \in 1..Len(AppendedEvents) : AppendedEvents[i].type = "dodge"}
            IN  /\ (block.step.StepType = "1" /\ Cardinality(rolls) = 1) =>
                      /\ Cardinality(dodges) = 1
                      /\ \A i \in dodges : \A r \in rolls :
                            AppendedEvents[i].playerId =
                                (IF block.results[r].PlayerId # None
                                 THEN block.results[r].PlayerId
                                 ELSE IF block.results[r].PushedPlayerId # None
                                 THEN block.results[r].PushedPlayerId
                                 ELSE block.step.PlayerId)
                /\ block.step.StepType # "1" => dodges = {}]_vars

\* A step-type-1 block by player 7 whose ResultRoll names player 9 has just
\* added a dodge event of player 9.
C13_Witness ==
    /\ pc = "scan"
    /\ Len(scanned) > 0
    /\ scanned[Len(scanned)].tag = "EventExecuteSequence"
    /\ scanned[Len(scanned)].body.step.StepType = "1"
    /\ scanned[Len(scanned)].body.step.PlayerId = "7"
    /\ Len(scanned[Len(scanned)].body.results) = 1
    /\ scanned[Len(scanned)].body.results[1].root = "ResultRoll"
    /\ scanned[Len(scanned)].body.results[1].PlayerId = "9"
    /\ currentTurn.events # <<>>
    /\ currentTurn.events[Len(currentTurn.events)].type = "dodge"
    /\ currentTurn.events[Len(currentTurn.events)].playerId = "9"

\* The roster lists the player under the team.
ListedUnder(rp, teamId, playerId) ==
    \E k \in 1..Len(rp.playerNamesByTeamAndId) :
        SplitKey(rp.playerNamesByTeamAndId[k]) = [teamId |-> teamId, playerId |-> playerId]

\* The carrier-bearing turn before turn i.
PreviousCarrierTurn(ts, i) ==
    CHOOSE j \in CarrierTurns(ts) : j < i /\ \A k \in CarrierTurns(ts) : k < i => k <= j

\* C14: when the carrier changes between two successive carrier-bearing
\* turns of the analysed team from one of its players to a player the
\* roster lists under the other team only, evaluateBallSafety returns
\* exactly one finding for that change and its severity is high.
C14_OpponentTakingBallIsHigh ==
    "ball_safety" \in DOMAIN findings =>
        \A i \in CarrierChanges(replay.turns) :
            LET ts == replay.turns
                from == ts[PreviousCarrierTurn(ts, i)].ballCarrierPlayerId
                to == ts[i].ballCarrierPlayerId
                own == ts[i].teamId
                hits == {k \in 1..Len(findings["ball_safety"]) :
                            findings["ball_safety"][k].turnNumber = ts[i].turnNumber}
            IN  (/\ ts[PreviousCarrierTurn(ts, i)].teamId = own
                 /\ ListedUnder(replay, own, from)
                 /\ ~ListedUnder(replay, own, to)
                 /\ \E team \in Range(replay.teams) : ListedUnder(replay, team.id, to))
                => /\ Cardinality(hits) = 1
                   /\ \A k \in hits : findings["ball_safety"][k].severity = "high"

\* The number of events of the given types in a turn.
EventsOfTypes(turn, types) ==
    Cardinality({i \in 1..Len(turn.events) : turn.events[i].type \in types})

\* C15: evaluateCageSafety reports, up to the cap and in turn order, exactly
\* the turns that have a ball carrier, no block and no blitz event, and
\* either two or more dodge-or-foul events or a turnover; severity is high
\* for a turnover turn and medium otherwise.
C15_CageSafetyTrigger ==
    "cage_safety" \in DOMAIN findings =>
        LET ts == replay.turns
            fs == findings["cage_safety"]
            triggering ==
                SelectIndices(
                    [i \in 1..Len(ts) |->
                        /\ ts[i].ballCarrierPlayerId \notin {None, ""}
                        /\ EventsOfTypes(ts[i], {"block"}) = 0
                        /\ EventsOfTypes(ts[i], {"blitz"}) = 0
                        /\ (EventsOfTypes(ts[i], {"dodge", "foul"}) >= 2
                            \/ ts[i].possibleTurnover)],
                    1, Len(ts))
        IN  /\ Len(fs) = (IF Len(triggering) < 6 THEN Len(triggering) ELSE 6)
            /\ \A k \in 1..Len(fs) :
                  /\ fs[k].turnNumber = ts[triggering[k]].turnNumber
                  /\ fs[k].category = "cage_safety"
                  /\ fs[k].severity =
                        (IF ts[triggering[k]].possibleTurnover THEN "high" ELSE "medium")

\* A turnover turn and a turn of two risky actions, both with a carrier and
\* without support, are reported high and medium; a carrier turn with a
\* blitz is not reported.
C15_Witness ==
    /\ "cage_safety" \in DOMAIN findings
    /\ Len(findings["cage_safety"]) >= 2
    /\ findings["cage_safety"][1].severity = "high"
    /\ findings["cage_safety"][2].severity = "medium"
    /\ \E i \in 1..Len(replay.turns) :
          /\ replay.turns[i].ballCarrierPlayerId # None
          /\ EventsOfTypes(replay.turns[i], {"blitz"}) > 0
          /\ \A k \in 1..Len(findings["cage_safety"]) :
                findings["cage_safety"][k].turnNumber # replay.turns[i].turnNumber

\* The references reachable from a list of turns' objects.
Reachable(objects) ==
    UNION {{objects[k].turn, objects[k].events} \cup Range(objects[k].elements) :
              k \in 1..Len(objects)}

ParentObjects(rp) == [i \in 1..Len(rp.turns) |-> ParentTurnObjects(rp, i)]

\* C16: scopeReplayToTeam leaves the replay it is given unchanged, and no
\* turn, events array or event of the scoped replay is the same object as
\* one of the parent replay or of another team's scoped replay.
C16_ScopedReplayIsIndependentCopy ==
    [][(pc = "scope" /\ pc' = "scoped") =>
          /\ replay' = replay
          /\ Reachable(scopedObjects') \cap Reachable(ParentObjects(replay)) = {}
          /\ \A other \in ScopeTeamIds \ {analysisTeamId'} :
                Reachable(scopedObjects')
                    \cap Reachable(scopeReplayToTeamObjects(replay, other)) = {}]_vars

(***************************************************************************)
(* Claims about the choice of the reported teams (checked under SpecTeams).*)
(***************************************************************************)
\* The listed teams that have turns tagged with their id.
UsedTeams(rp) == {team \in Range(rp.teams) : Usage(rp, team.id) > 0}

\* The replay with its teams listed in another order.
Reorderings(rp) ==
    {[rp EXCEPT !.teams = q] :
        q \in {r \in SeqsUpTo(Range(rp.teams), Len(rp.teams)) :
                  Len(r) = Len(rp.teams) /\ Range(r) = Range(rp.teams)}}

\* C17: the set of teams selectPlayableTeams returns does not depend on the
\* order in which the replay lists its teams; in particular a tie on turn
\* usage for one of the two slots is not settled by list position.
C17_SelectionIgnoresListOrder ==
    (pc = "selected" /\ Cardinality(UsedTeams(replay)) >= 2) =>
        \A other \in Reorderings(replay) :
            Range(selectPlayableTeams(other)) = Range(playableTeams)

\* The names of the pool that are generic placeholders ("Team <number>").
PlaceholderNames ==
    { <<"T", "e", "a", "m", " ", "1">>, <<" ", "t", "e", "a", "m", " ", "2", "2", " ">> }

\* The listed teams whose name is not a placeholder, in list order.
NamedTeams(rp) ==
    LET idx == SelectIndices([i \in 1..Len(rp.teams) |->
                                 rp.teams[i].name \notin PlaceholderNames],
                             1, Len(rp.teams))
    IN  [k \in 1..Len(idx) |-> rp.teams[idx[k]]]

\* C20: selectPlayableTeams returns at most two teams of the replay's list,
\* never one twice: the two with the highest nonzero turn counts when two or
\* more teams have turns; otherwise the first two teams without a
\* placeholder name when there are two; otherwise the one used team padded
\* with another team; otherwise the first two teams of the list.
C20_PlayableTeamsChoice ==
    pc = "selected" =>
        LET result == playableTeams
            used == UsedTeams(replay)
            named == NamedTeams(replay)
        IN  /\ Len(result) <= 2
            /\ Range(result) \subseteq Range(replay.teams)
            /\ Len(result) = 2 => result[1] # result[2]
            /\ IF Cardinality(used) >= 2
               THEN /\ Len(result) = 2
                    /\ Range(result) \subseteq used
                    /\ Usage(replay, result[1].id) >= Usage(replay, result[2].id)
                    /\ \A team \in Range(replay.teams) \ Range(result) :
                          Usage(replay, team.id) <= Usage(replay, result[2].id)
               ELSE IF Len(named) >= 2
               THEN result = <<named[1], named[2]>>
               ELSE IF Cardinality(used) = 1
               THEN /\ result[1] \in used
                    /\ IF Len(replay.teams) >= 2
                       THEN Len(result) = 2 /\ result[2] \notin used
                       ELSE Len(result) = 1
               ELSE result = FirstTwo(replay.teams)

\* One team has turns, fewer than two teams carry a real name, and the used
\* team comes back padded with the list's first other team.
C20_Witness ==
    /\ pc = "selected"
    /\ Cardinality(UsedTeams(replay)) = 1
    /\ Len(NamedTeams(replay)) = 1
    /\ Len(replay.teams) = 3
    /\ replay.teams[3] \in UsedTeams(replay)
    /\ playableTeams = <<replay.teams[3], replay.teams[1]>>

(***************************************************************************)
(* Claims about the turns and events of a scoped replay (SpecScope).       *)
(***************************************************************************)
\* Parent turns tagged with the team, and parent turns inferTurnTeamId
\* attributes to it.
DirectTurns(teamId) == {i \in 1..Len(replay.turns) : replay.turns[i].teamId = teamId}
InferredTurns(teamId) == {i \in 1..Len(replay.turns) : inferred[i] = teamId}

\* The team's positions (0-based) in the team list.
ListPositions(teamId) == {t \in 0..(Len(replay.teams) - 1) : replay.teams[t + 1].id = teamId}

\* The parent turns the scoped replay was made from.
ScopedOrigins ==
    {scopedReplay.turns[k].raw.originalTurnNumber : k \in 1..Len(scopedReplay.turns)}

\* The first 16 elements of a set of turn indices.
FirstSixteen(indices) == {i \in indices : Cardinality({j \in indices : j <= i}) <= 16}

\* C18: the qualifying turns of a team are its directly tagged turns; the
\* inferred turns instead when the tagged ones are fewer than 16 and the
\* inferred ones strictly more; and, only when that choice is empty and the
\* replay has exactly two teams, the turns whose 0-based position has the
\* parity of the team's index in the team list.
C18_QualifyingTurnsChoice ==
    pc = "scoped" =>
        LET direct == DirectTurns(analysisTeamId)
            byInference == InferredTurns(analysisTeamId)
            chosen == IF Cardinality(direct) < 16
                         /\ Cardinality(byInference) > Cardinality(direct)
                      THEN byInference ELSE direct
            alternating == {i \in 1..Len(replay.turns) :
                               \E t \in ListPositions(analysisTeamId) : (i - 1) % 2 = t}
        IN  IF chosen # {} \/ Len(replay.teams) # 2
            THEN ScopedOrigins = FirstSixteen(chosen)
            ELSE ScopedOrigins = FirstSixteen(alternating)

\* Sixteen tagged turns are kept although seventeen turns are inferred.
C18_Witness ==
    /\ pc = "scoped"
    /\ Cardinality(DirectTurns(analysisTeamId)) = 16
    /\ Cardinality(InferredTurns(analysisTeamId)) = 17
    /\ ScopedOrigins = DirectTurns(analysisTeamId)

\* The alternating fallback at work for the second of two teams.
C18_WitnessAlternating ==
    /\ pc = "scoped"
    /\ DirectTurns(analysisTeamId) = {}
    /\ InferredTurns(analysisTeamId) = {}
    /\ Len(replay.teams) = 2
    /\ ScopedOrigins = {2, 4}

\* An event belongs to the scoped team: by its player's team when the
\* lookup resolves the player, else by its own team tag, else by default.
BelongsToScope(event) ==
    IF event.playerId \notin {None, ""} /\ event.playerId \in DOMAIN playerToTeam
    THEN playerToTeam[event.playerId] = analysisTeamId
    ELSE IF event.teamId \notin {None, ""} THEN event.teamId = analysisTeamId
    ELSE TRUE

\* C19: every turn of a scoped replay holds exactly the parent turn's
\* events that belong to the scoped team, in their original order, and its
\* carrier is the parent's, cleared exactly when the lookup resolves the
\* carrier to another team.
C19_ScopedEventsAndCarrier ==
    pc = "scoped" =>
        \A k \in 1..Len(scopedReplay.turns) :
            LET scoped == scopedReplay.turns[k]
                parent == replay.turns[scoped.raw.originalTurnNumber]
                kept == SelectIndices([j \in 1..Len(parent.events) |->
                                          BelongsToScope(parent.events[j])],
                                      1, Len(parent.events))
                carrierElsewhere ==
                    /\ parent.ballCarrierPlayerId \in DOMAIN playerToTeam
                    /\ playerToTeam[parent.ballCarrierPlayerId] # analysisTeamId
            IN  /\ scoped.events = [j \in 1..Len(kept) |-> parent.events[kept[j]]]
                /\ scoped.ballCarrierPlayerId =
                      (IF carrierElsewhere THEN None ELSE parent.ballCarrierPlayerId)

\* A scoped turn that lost an event of the other team, kept an event of a
\* player the lookup does not resolve, and lost its carrier.
C19_Witness ==
    /\ pc = "scoped"
    /\ \E k \in 1..Len(scopedReplay.turns) :
          LET scoped == scopedReplay.turns[k]
              parent == replay.turns[scoped.raw.originalTurnNumber]
          IN  /\ Len(scoped.events) < Len(parent.events)
              /\ parent.ballCarrierPlayerId # None
              /\ scoped.ballCarrierPlayerId = None
    /\ \E k \in 1..Len(scopedReplay.turns) :
          \E j \in 1..Len(scopedReplay.turns[k].events) :
              LET event == scopedReplay.turns[k].events[j]
              IN  /\ event.playerId # None
                  /\ event.playerId \notin DOMAIN playerToTeam
                  /\ event.teamId = None

\* C21: a ball-carrier marker whose body is empty or "-1" clears the current
\* turn's carrier (also one an earlier marker of the turn had set) and appends
\* no event; a marker with any other body sets the carrier to that player id
\* and appends exactly one ball_state event carrying that player id.
C21_CarrierMarkerSetsOrClears ==
    [][(Len(scanned') = Len(scanned) + 1 /\ scanned'[Len(scanned')].tag = "Carrier") =>
            LET carrierId == Trim(scanned'[Len(scanned')].body)
            IN  IF carrierId \in {"", "-1"}
                THEN /\ currentTurn'.ballCarrierPlayerId = None
                     /\ currentTurn'.events = currentTurn.events
                ELSE /\ currentTurn'.ballCarrierPlayerId = carrierId
                     /\ Len(AppendedEvents) = 1
                     /\ currentTurn'.events = currentTurn.events \o AppendedEvents
                     /\ AppendedEvents[1].type = "ball_state"
                     /\ AppendedEvents[1].playerId = carrierId]_vars

\* The root tags of the mapping table.
MappedRootTags ==
    {"ResultBlockRoll", "ResultBlockOutcome", "ResultPushBack", "ResultUseAction",
     "ResultRoll", "QuestionTeamRerollUsage", "ResultTeamRerollUsage", "ResultInjuryRoll",
     "ResultCasualtyRoll", "ResultPlayerRemoval", "BallStep", "ResultTouchBack"}

\* The positions of a block's result fragments that have no mapping: a root
\* tag outside the table, a ResultUseAction with an action code other than 2,
\* a ResultRoll under a step-type code other than 1.
UnmappedResults(block) ==
    {i \in 1..Len(block.results) :
        LET result == block.results[i]
        IN  /\ result.root # None
            /\ \/ result.root \notin MappedRootTags
               \/ result.root = "ResultUseAction" /\ result.Action # "2"
               \/ result.root = "ResultRoll" /\ block.step.StepType # "1"}

\* The block without its unmapped result fragments.
WithoutUnmapped(block) ==
    [block EXCEPT !.results =
        LET kept == SelectIndices([i \in 1..Len(block.results) |->
                                      i \notin UnmappedResults(block)],
                                  1, Len(block.results))
        IN  [j \in 1..Len(kept) |-> block.results[kept[j]]]]

\* How often a key occurs in a tally.
Occurrences(tally, key) == IF key \in DOMAIN tally THEN tally[key] ELSE 0

NumberedFindings == {i \in 1..Len(findings) : findings[i].turnNumber # NoNumber}

\* The finding an advice item was made from (titles are distinct).
FindingOf(item) == CHOOSE i \in 1..Len(findings) : findings[i].title = item.happened

\* Finding i comes before finding j in the advice order: lower turn number
\* first, higher severity first within a turn, list order otherwise.
AdviceBefore(i, j) ==
    LET ti == CHOOSE n \in findings[i].turnNumber : TRUE
        tj == CHOOSE n \in findings[j].turnNumber : TRUE
        si == severityScore(findings[i].severity)
        sj == severityScore(findings[j].severity)
    IN  \/ ti < tj
        \/ ti = tj /\ si > sj
        \/ ti = tj /\ si = sj /\ i < j

\* C23: findingsToTurnAdvice returns at most 16 items, made only from findings
\* that have a turn number, in non-decreasing turn order with the items of a
\* turn from higher to lower severity; they are the first 16 of that ordering
\* and each item's confidence is its finding's severity.
C23_AdviceIsFirstSixteenByTurnThenSeverity ==
    pc = "advised" =>
        /\ Len(advice) <= 16
        /\ Len(advice) = (IF Cardinality(NumberedFindings) < 16
                          THEN Cardinality(NumberedFindings) ELSE 16)
        /\ \A k \in 1..Len(advice) :
              /\ \E i \in NumberedFindings : findings[i].title = advice[k].happened
              /\ LET origin == FindingOf(advice[k])
                 IN  /\ origin \in NumberedFindings
                     /\ advice[k].turnNumber \in findings[origin].turnNumber
                     /\ advice[k].confidence = findings[origin].severity
                     /\ Cardinality({j \in NumberedFindings :
                                        AdviceBefore(j, origin)}) = k - 1
        /\ \A k \in 1..(Len(advice) - 1) :
              /\ advice[k].turnNumber <= advice[k + 1].turnNumber
              /\ advice[k].turnNumber = advice[k + 1].turnNumber =>
                    severityScore(advice[k].confidence)
                        >= severityScore(advice[k + 1].confidence)

\* Seventeen findings, one of them without a turn number and left out, the
\* low finding of turn 1 moved behind the later findings of the same turn.
C23_Witness ==
    /\ pc = "advised"
    /\ Len(findings) = 17
    /\ findings[1].turnNumber = Num(1)
    /\ findings[1].severity = "low"
    /\ findings[2].turnNumber = NoNumber
    /\ findings[3].severity = "medium"
    /\ findings[3].turnNumber = Num(1)
    /\ Len(advice) = 16
    /\ advice[16].happened = 1
    /\ advice[1].happened = 3

\* More than sixteen findings with a turn number: the last in the advice
\* order is cut.
C23_WitnessCapped ==
    /\ pc = "advised"
    /\ Cardinality(NumberedFindings) = 17
    /\ Len(advice) = 16
    /\ findings[1].turnNumber = Num(2)
    /\ findings[3].turnNumber = Num(1)
    /\ \A k \in 1..Len(advice) : advice[k].happened # 1

\* Whether a foul of the turn comes before the turn's first ball_state event
\* (any foul does when the turn has no ball_state event).
FoulBeforeFirstBallState(turn) ==
    \E i \in 1..Len(turn.events) :
        /\ turn.events[i].type = "foul"
        /\ \A j \in 1..Len(turn.events) : turn.events[j].type = "ball_state" => i < j

\* C24 (as stated): evaluateFoulTiming reports, up to the cap and in turn
\* order, exactly the turns that contain a foul before their first ball_state
\* event or are a turnover; severity is high for a turnover turn and medium
\* otherwise.
C24_FoulBeforeBallOrAnyTurnover ==
    "foul_timing" \in DOMAIN findings =>
        LET ts == replay.turns
            fs == findings["foul_timing"]
            triggering ==
                SelectIndices(
                    [i \in 1..Len(ts) |->
                        FoulBeforeFirstBallState(ts[i]) \/ ts[i].possibleTurnover],
                    1, Len(ts))
        IN  /\ Len(fs) = (IF Len(triggering) < 6 THEN Len(triggering) ELSE 6)
            /\ \A k \in 1..Len(fs) :
                  /\ fs[k].turnNumber = ts[triggering[k]].turnNumber
                  /\ fs[k].severity =
                        (IF ts[triggering[k]].possibleTurnover THEN "high" ELSE "medium")

\* C24 (amended): the turns reported are exactly those that contain a foul
\* and either have a foul before their first ball_state event (or no
\* ball_state event at all) or are a turnover.
C24_FoulTurnsBeforeBallOrTurnover ==
    "foul_timing" \in DOMAIN findings =>
        LET ts == replay.turns
            fs == findings["foul_timing"]
            triggering ==
                SelectIndices(
                    [i \in 1..Len(ts) |->
                        /\ EventsOfTypes(ts[i], {"foul"}) > 0
                        /\ (FoulBeforeFirstBallState(ts[i]) \/ ts[i].possibleTurnover)],
                    1, Len(ts))
        IN  /\ Len(fs) = (IF Len(triggering) < 6 THEN Len(triggering) ELSE 6)
            /\ \A k \in 1..Len(fs) :
                  /\ fs[k].turnNumber = ts[triggering[k]].turnNumber
                  /\ fs[k].category = "foul_timing"
                  /\ fs[k].severity =
                        (IF ts[triggering[k]].possibleTurnover THEN "high" ELSE "medium")

\* A turnover turn without a foul is not reported; a turnover turn whose foul
\* follows the ball_state event is reported high, a turn of fouls with no
\* ball_state event medium.
C24_Witness ==
    /\ "foul_timing" \in DOMAIN findings
    /\ Len(replay.turns) >= 3
    /\ replay.turns[1].possibleTurnover
    /\ EventsOfTypes(replay.turns[1], {"foul"}) = 0
    /\ replay.turns[2].possibleTurnover
    /\ EventsOfTypes(replay.turns[2], {"foul"}) > 0
    /\ ~FoulBeforeFirstBallState(replay.turns[2])
    /\ ~replay.turns[3].possibleTurnover
    /\ FoulBeforeFirstBallState(replay.turns[3])
    /\ Len(findings["foul_timing"]) >= 2
    /\ findings["foul_timing"][1].turnNumber = 2
    /\ findings["foul_timing"][1].severity = "high"
    /\ findings["foul_timing"][2].turnNumber = 3
    /\ findings["foul_timing"][2].severity = "medium"

\* The gamer named by the latest active-gamer-change marker scanned so far
\* that names one; undefined when there is none.
LastNamedGamer ==
    LET named == {i \in 1..Len(scanned) :
                     scanned[i].tag = "EventActiveGamerChanged" /\ scanned[i].body # None}
    IN  IF named = {} THEN None
        ELSE scanned[CHOOSE i \in named : \A j \in named : j <= i].body

\* C25: the turn an end-turn marker opens starts with the gamer id of the
\* latest active-gamer-change marker that named one; such a marker sets the
\* current turn's gamer id only if the turn has none, and a marker that names
\* no gamer changes neither the turns nor the active gamer nor the result.
C25_ActiveGamerCarriedForward ==
    [][/\ (Len(scanned') = Len(scanned) + 1 /\ scanned'[Len(scanned')].tag = "EventEndTurn") =>
            /\ currentTurn'.gamerId = LastNamedGamer
            /\ activeGamerId' = LastNamedGamer
       /\ (Len(scanned') = Len(scanned) + 1
           /\ scanned'[Len(scanned')].tag = "EventActiveGamerChanged") =>
            LET named == scanned'[Len(scanned')].body
            IN  /\ turns' = turns
                /\ IF named = None
                   THEN /\ currentTurn' = currentTurn
                        /\ activeGamerId' = activeGamerId
                   ELSE /\ activeGamerId' = named
                        /\ currentTurn' =
                              (IF currentTurn.gamerId \in {None, ""}
                               THEN [currentTurn EXCEPT !.gamerId = named]
                               ELSE currentTurn)
       /\ (pc' = "returned"
           /\ \A i \in 1..Len(scanned) :
                 scanned[i].tag = "EventActiveGamerChanged" /\ scanned[i].body = None) =>
            parsed' = <<>>]_vars

\* Gamer g0 was named, an end-turn marker opened turn 2 for g0, and a marker
\* naming g1 then left turn 2 with g0 while g1 became the active gamer.
C25_Witness ==
    /\ Len(scanned) = 3
    /\ scanned[1].tag = "EventActiveGamerChanged"
    /\ scanned[1].body = "g0"
    /\ scanned[2].tag = "EventEndTurn"
    /\ scanned[3].tag = "EventActiveGamerChanged"
    /\ scanned[3].body = "g1"
    /\ currentTurn.turnNumber = 2
    /\ currentTurn.gamerId = "g0"
    /\ activeGamerId = "g1"

\* The positions of a turn's turnover events.
TurnoverEvents(turn) == {i \in 1..Len(turn.events) : turn.events[i].type = "turnover"}

\* C26: in every turn the parser returns and in every turn of a replay scoped
\* from them, the turnover flag is set iff the turn holds a turnover event,
\* a turn holds at most one turnover event, the event count is the length of
\* the event list, and in a returned turn the turnover event is the last.
C26_TurnoverFlagMatchesEvent ==
    /\ pc \in {"returned", "scoped"} =>
          \A i \in 1..Len(parsed) :
              /\ parsed[i].possibleTurnover <=> TurnoverEvents(parsed[i]) # {}
              /\ Cardinality(TurnoverEvents(parsed[i])) <= 1
              /\ TurnoverEvents(parsed[i]) \subseteq {Len(parsed[i].events)}
              /\ parsed[i].eventCount = Len(parsed[i].events)
    /\ pc = "scoped" =>
          \A k \in 1..Len(scopedReplay.turns) :
              LET turn == scopedReplay.turns[k]
              IN  /\ turn.possibleTurnover <=> TurnoverEvents(turn) # {}
                  /\ Cardinality(TurnoverEvents(turn)) <= 1
                  /\ turn.eventCount = Len(turn.events)

\* A returned turnover turn whose other event was filtered out for the scoped
\* team: the scoped turn holds the turnover event alone.
C26_Witness ==
    /\ pc = "scoped"
    /\ \E k \in 1..Len(scopedReplay.turns) :
          LET turn == scopedReplay.turns[k]
              parent == parsed[turn.raw.originalTurnNumber]
          IN  /\ parent.possibleTurnover
              /\ Len(parent.events) >= 2
              /\ turn.possibleTurnover
              /\ turn.eventCount = 1
              /\ turn.events[1].type = "turnover"

\* The parent turns the scoped replay of another team is made from.
OriginsFor(teamId) ==
    LET other == scopeReplayToTeam(replay, teamId)
    IN  {other.turns[k].raw.originalTurnNumber : k \in 1..Len(other.turns)}

\* C27: for any two different team ids, no turn of the parent replay is
\* included in both teams' scoped replays, whether the turns were chosen by
\* tag, by inferred attribution or by the alternating fallback.
C27_NoTurnInTwoScopedReplays ==
    pc = "scoped" =>
        \A teamId \in ScopeTeamIds \ {analysisTeamId} :
            ScopedOrigins \cap OriginsFor(teamId) = {}

\* C28 (as stated): when some team has tagged turns, every returned team has
\* tagged turns or fewer than two teams have any; and when exactly one team
\* has tagged turns, that team is among the returned teams.
C28_UsedTeamAlwaysReturned ==
    (pc = "selected" /\ UsedTeams(replay) # {}) =>
        /\ \A team \in Range(playableTeams) :
              Usage(replay, team.id) > 0 \/ Cardinality(UsedTeams(replay)) < 2
        /\ Cardinality(UsedTeams(replay)) = 1 =>
              UsedTeams(replay) \subseteq Range(playableTeams)

\* C28 (amended): as above, with the single team that has tagged turns
\* returned (in first place) unless two or more listed teams carry a name that
\* is not a placeholder, in which case the first two of those are returned.
C28_UsedTeamReturnedUnlessTwoNamed ==
    (pc = "selected" /\ UsedTeams(replay) # {}) =>
        /\ \A team \in Range(playableTeams) :
              Usage(replay, team.id) > 0 \/ Cardinality(UsedTeams(replay)) < 2
        /\ Cardinality(UsedTeams(replay)) = 1 =>
              IF Len(NamedTeams(replay)) >= 2
              THEN playableTeams = <<NamedTeams(replay)[1], NamedTeams(replay)[2]>>
              ELSE /\ Len(playableTeams) >= 1
                   /\ playableTeams[1] \in UsedTeams(replay)

\* Two teams have tagged turns and are returned while a third, listed first,
\* has none; and the replay's turns are all tagged.
C28_Witness ==
    /\ pc = "selected"
    /\ Len(replay.teams) = 3
    /\ Usage(replay, replay.teams[1].id) = 0
    /\ Usage(replay, replay.teams[2].id) = 1
    /\ Usage(replay, replay.teams[3].id) = 2
    /\ playableTeams = <<replay.teams[3], replay.teams[2]>>

\* The only team with tagged turns is left out for two teams with real names.
C28_WitnessNamed ==
    /\ pc = "selected"
    /\ Cardinality(UsedTeams(replay)) = 1
    /\ Len(NamedTeams(replay)) = 2
    /\ UsedTeams(replay) \cap Range(playableTeams) = {}

\* The only team with tagged turns, listed last, is returned first.
C28_WitnessSingle ==
    /\ pc = "selected"
    /\ Cardinality(UsedTeams(replay)) = 1
    /\ Len(NamedTeams(replay)) < 2
    /\ Len(replay.teams) = 2
    /\ playableTeams = <<replay.teams[2], replay.teams[1]>>

====
